---------------------------- MODULE Spec2Model ----------------------------
(***************************************************************************)
(* Model of the horatio IRC <-> HTTP bridge (andyjack/court, cmd/horatio): *)
(* the IRC client (irccclient.go) with its reader and writer goroutines    *)
(* and its registration handshake, the dispatcher loop of main (main.go)   *)
(* and the chat.postMessage handler of the Web API (webapi.go).            *)
(*                                                                         *)
(* A Go string is modelled as a sequence of symbols.  A symbol is either   *)
(* one of the protocol's special characters (" ", ":", "#", "\r", "\n") or *)
(* a run of ordinary characters written as one TLA+ string ("PRIVMSG").    *)
(* A Go channel is a sequence (its buffer) plus a closed flag.             *)
(***************************************************************************)
EXTENDS Integers, Sequences, FiniteSets, TLC

----------------------------------------------------------------------------
(* Bounds of the model *)

\* capacity of readChan in the model (1024 in the program)
ReadChanCap == 1

\* capacity of writeChan in the model (1024 in the program)
WriteChanCap == 2

\* number of lines the reader reads from the socket in one run
MaxLines == 2

\* number of chat.postMessage requests served in one run
NumHandlers == 1

\* lines the server sends to the dispatcher: the welcome, one that is
\* being delivered and one more
DispatchMaxLines == 3

\* lines the server sends to a client whose owner stops receiving: the
\* welcome, a full readChan and one more
CloseMaxLines == 3

\* parameters of a message handed to the codec on its own
CodecMaxParams == 2

\* the lines the server sends to the client when what matters is their
\* passage through readChan
DeliverMaxLines == 3

\* message events handled by the claim/release handler, one goroutine each
LabCalls == 3

----------------------------------------------------------------------------
(* Program constants *)

\* time.After(5 * time.Second) in init
HandshakeTimeout == 5

\* irc.MaxLineLength, counted in symbols here
MaxLineLength == 16

----------------------------------------------------------------------------
(* Strings *)

SP == " "

COLON == ":"

CRLF == <<"\r", "\n">>

\* strings.IndexAny(param, " ") != -1
HasSpace(s) == \E i \in 1..Len(s) : s[i] = SP

\* index of the first space of s at or after position i, Len(s)+1 if none
RECURSIVE IndexSpace(_, _)
IndexSpace(s, i) ==
    IF i > Len(s) THEN Len(s) + 1
    ELSE IF s[i] = SP THEN i
    ELSE IndexSpace(s, i + 1)

IsPrefixOf(s, t) == Len(s) <= Len(t) /\ SubSeq(t, 1, Len(s)) = s

----------------------------------------------------------------------------
(* irc.Message and its codec *)

Msg(prefix, command, params) ==
    [Prefix |-> prefix, Command |-> command, Params |-> params]

NoMsg == Msg(<<>>, <<>>, <<>>)

\* the loop over m.Params of Message.Encode: s is the line built so far
RECURSIVE EncodeParams(_, _, _)
EncodeParams(s, params, i) ==
    IF i > Len(params) THEN [buf |-> s \o CRLF, err |-> "nil"]
    ELSE
      LET raw   == params[i]
          colon == HasSpace(raw) \/ raw = <<>> \/ (raw # <<>> /\ raw[1] = COLON)
          param == IF colon THEN <<COLON>> \o raw ELSE raw
      IN  IF colon /\ i # Len(params)
            THEN [buf |-> <<>>, err |-> "error"]
          ELSE IF Len(s) + 1 + Len(param) + 2 > MaxLineLength
            THEN LET avail == MaxLineLength - (Len(s) + 1 + 2)
                     cut   == IF avail > 0
                                THEN s \o <<SP>> \o SubSeq(param, 1, avail)
                                ELSE s
                 IN  [buf |-> cut \o CRLF, err |-> "truncated"]
          ELSE EncodeParams(s \o <<SP>> \o param, params, i + 1)

\* an encoder that leaves the prefix out
EncodeNoPrefix(m) ==
    IF Len(m.Command) + 2 > MaxLineLength
      THEN [buf |-> <<>>, err |-> "error"]
      ELSE EncodeParams(m.Command, m.Params, 1)

\* Message.Encode: the wire line of m, with err "nil", "truncated" (the line
\* is cut at MaxLineLength) or "error" (nothing can be written)
Encode(m) ==
    LET s0 == IF m.Prefix # <<>> THEN <<COLON>> \o m.Prefix \o <<SP>> ELSE <<>>
        s  == s0 \o m.Command
    IN  IF Len(s) + 2 > MaxLineLength
          THEN [buf |-> <<>>, err |-> "error"]
          ELSE EncodeParams(s, m.Params, 1)

\* what ParseParams yields in place of a parameter it cannot parse
BadParam == <<"\\bad">>

\* the parameters of the line body b from position i on (b[i] is the space
\* that starts a parameter); "bad" marks a malformed parameter list
RECURSIVE ParseParams(_, _)
ParseParams(b, i) ==
    IF i > Len(b) THEN <<>>
    ELSE IF i = Len(b) THEN <<BadParam>>
    ELSE IF b[i + 1] = COLON THEN << SubSeq(b, i + 2, Len(b)) >>
    ELSE LET j == IndexSpace(b, i + 1)
         IN  IF j = i + 1 THEN <<BadParam>>
             ELSE << SubSeq(b, i + 1, j - 1) >> \o ParseParams(b, j)

\* irc.ParseMessage: the message of one wire line, with err "nil",
\* "truncated" (the line was longer than MaxLineLength and was cut) or
\* "error"
ParseMessage(line) ==
    LET n    == Len(line)
        term == n >= 1 /\ line[n] = "\n"
        raw  == IF ~term THEN line
                ELSE IF n >= 2 /\ line[n - 1] = "\r" THEN SubSeq(line, 1, n - 2)
                ELSE SubSeq(line, 1, n - 1)
        long == Len(raw) + 2 > MaxLineLength
        b    == IF long THEN SubSeq(raw, 1, MaxLineLength - 2) ELSE raw
        hasPrefix == b # <<>> /\ b[1] = COLON
        pEnd == IF hasPrefix THEN IndexSpace(b, 1) ELSE 0
        prefix == IF hasPrefix THEN SubSeq(b, 2, pEnd - 1) ELSE <<>>
        cStart == pEnd + 1
        cEnd == IndexSpace(b, cStart)
        command == SubSeq(b, cStart, cEnd - 1)
        params == ParseParams(b, cEnd)
        bad == \/ ~term
               \/ b = <<>>
               \/ hasPrefix /\ prefix = <<>>
               \/ command = <<>>
               \/ \E k \in 1..Len(command) : command[k] = COLON
               \/ \E k \in 1..Len(params) : params[k] = BadParam
    IN  IF bad THEN [m |-> NoMsg, err |-> "error"]
        ELSE [m |-> Msg(prefix, command, params),
              err |-> IF long THEN "truncated" ELSE "nil"]

----------------------------------------------------------------------------
(* Configuration (the defaults of getArgs) and the messages of the run *)

nick == <<"bot">>

channel == <<"#", "test">>

NickMsg == Msg(<<>>, <<"NICK">>, <<nick>>)

UserMsg == Msg(<<>>, <<"USER">>, <<nick, nick, <<"0">>, nick>>)

JoinMsg == Msg(<<>>, <<"JOIN">>, <<channel>>)

\* the wire lines the server may send, each read by ReadString as a whole
ServerLines ==
    { <<COLON, "srv", SP, "001", SP, "bot", SP, COLON, "Welcome">> \o CRLF,
      <<"NOTICE", SP, "AUTH", SP, COLON, "hi">> \o CRLF,
      <<"PING", SP, COLON, "abc">> \o CRLF,
      <<"PING">> \o CRLF,
      <<COLON, "alice!u@h", SP, "PRIVMSG", SP, "#", "general", SP, COLON,
        "hello", SP, "there">> \o CRLF,
      <<COLON, "alice!u@h", SP, "PRIVMSG", SP, "bot", SP, "hi">> \o CRLF,
      <<SP>> \o CRLF }

\* the lines sent to the dispatcher: those and a channel PRIVMSG without
\* text and a channel PRIVMSG whose originator is the client's own nick
DispatchLines ==
    ServerLines \cup
    { <<COLON, "alice!u@h", SP, "PRIVMSG", SP, "#", "general">> \o CRLF,
      <<COLON, "bot", SP, "PRIVMSG", SP, "#", "test", SP, COLON, "hi">>
        \o CRLF }

\* a line longer than MaxLineLength: ParseMessage cuts it and returns the
\* message of the cut line with ErrTruncated
LongLine ==
    <<"NOTICE", SP, "AUTH", SP, COLON, "a", SP, "b", SP, "c", SP, "d", SP,
      "e", SP, "f", SP, "g">> \o CRLF

\* the lines sent to the reader: the welcome, the line of ServerLines that
\* does not parse, and the long one
ReadLines ==
    { line \in ServerLines :
        ParseMessage(line).m.Command \in { <<"001">>, <<>> } }
    \cup { LongLine }

\* the PING of ServerLines that has a payload
PingLine == <<"PING", SP, COLON, "abc">> \o CRLF

\* the lines of a server that, the welcome apart, only probes the link
SendLines ==
    { line \in ServerLines :
        LET m == ParseMessage(line).m
        IN  \/ m.Command = <<"001">>
            \/ m.Command = <<"PING">> /\ Len(m.Params) > 0 }

\* the parameters of the messages handed to the codec: a channel, a nick,
\* an empty one, one that begins with a colon, and texts with spaces, the
\* last of them too long for a line
CodecParams ==
    { <<"#", "general">>, nick, <<>>, <<COLON, "x">>,
      <<"a", SP, "b", SP, "c">>,
      <<"a", SP, "b", SP, "c", SP, "d", SP, "e">> }

\* the sequences of at most n parameters
RECURSIVE CodecParamSeqs(_)
CodecParamSeqs(n) ==
    IF n = 0 THEN { <<>> }
    ELSE CodecParamSeqs(n - 1) \cup
         { Append(ps, p) : ps \in { q \in CodecParamSeqs(n - 1) : Len(q) = n - 1 },
                           p \in CodecParams }

\* the messages handed to the codec: without a prefix as the program builds
\* them, or with the prefix of a server or of a user as it receives them
CodecMsgs ==
    { Msg(prefix, command, params) :
        prefix \in { <<>>, <<"srv">>, <<"alice!u@h">> },
        command \in { <<"PING">>, <<"PRIVMSG">>, <<"001">> },
        params \in CodecParamSeqs(CodecMaxParams) }

\* the requests a chat.postMessage client may make: json is FALSE when the
\* body is not valid JSON, else Channel and Text are the decoded
\* PostMessagePayload
Req(method, json, ch, text) ==
    [method |-> method, json |-> json, Channel |-> ch, Text |-> text]

Requests ==
    { Req("POST", TRUE, <<"#", "general">>,
          <<"a", SP, "b", SP, "c", SP, "d", SP, "e">>),
      Req("POST", TRUE, <<"a", SP, "b">>, <<"hi">>),
      Req("POST", FALSE, <<>>, <<>>),
      Req("GET", TRUE, <<"#", "general">>, <<"hi">>) }

\* the users of the message events: one of the form nick!user@host and one
\* without a "!"
LabUsers == { <<"alice", "!", "u@h">>, <<"srv">> }

\* the texts of the message events: the three commands and another text
LabTexts == { "!take", "!release", "!status", "hello" }

\* the calls of messageEvent, numbered in the order the events arrive
Calls == 1..LabCalls

\* a call that has no event yet
NoEvent == [User |-> <<>>, Text |-> ""]

\* a call that has read nothing of the claim state
NoSaw == [taken |-> FALSE, whohas |-> <<>>]

\* the calls of postMessageHandler, numbered in the order the requests
\* arrive
Handlers == 1..NumHandlers

----------------------------------------------------------------------------
(* State *)

VARIABLES
    mainPc,          \* position of the main goroutine
    openErr,         \* the error init returned: "none" while there is none
    mainMsg,         \* the message the dispatcher loop is handling
    hsArmed,         \* timeoutChan of init is running
    hsElapsed,       \* seconds since time.After was called, while init runs
    readChan,        \* buffer of c.readChan
    readChanClosed,  \* c.readChan is closed
    writeChan,       \* buffer of c.writeChan
    writeChanClosed, \* c.writeChan is closed
    readerPc,        \* position of the reader goroutine
    readerMsg,       \* the message the reader is about to push
    writerPc,        \* position of the writer goroutine
    writerMsg,       \* the message the writer is writing
    writeErr,        \* writeMessage has returned an error
    sockOut,         \* lines fully written and flushed to the socket
    sockPartial,     \* bytes of a failed write that reached the socket
    sockClosed,      \* conn.Close() has been called
    nRead,           \* number of lines ReadString has returned
    hPc,             \* position of each postMessageHandler call
    hMsg,            \* the message a handler holds until its Write returns
    decoded,         \* history: messages readMessage returned
    received,        \* history: messages received from readChan
    enq,             \* history: messages accepted by writeChan
    wtaken,          \* history: messages the writer took from writeChan
    events,          \* history: the calls of dispatchEvent, each with its
                     \* Event and its result ("pending" until it returns)
    readDeadline,    \* the read deadline of conn: "none", "set" or "passed"
    writeDeadline,   \* the write deadline of conn: "none", "set" or "passed"
    taken,           \* var taken of the claim/release handler
    whohas,          \* var whohas of the claim/release handler
    mutex,           \* the messageEvent call that holds mutex, 0 if none
    evPc,            \* position of each messageEvent call
    evArg,           \* user and text of each messageEvent call
    evSaw,           \* what each call read of taken and whohas
    labLog           \* history: the commands decided and the replies sent

vars == << mainPc, openErr, mainMsg, hsArmed, hsElapsed, readChan,
           readChanClosed, writeChan, writeChanClosed, readerPc, readerMsg,
           writerPc, writerMsg, writeErr, sockOut, sockPartial,
           sockClosed, nRead, hPc, hMsg, decoded, received, enq, wtaken,
           events, readDeadline, writeDeadline, taken, whohas, mutex,
           evPc, evArg, evSaw, labLog >>

mainVars == << mainPc, openErr, mainMsg >>

timerVars == << hsArmed, hsElapsed >>

readerVars == << readerPc, readerMsg, decoded >>

writerVars == << writerPc, writerMsg, writeErr, wtaken, sockOut, sockPartial >>

handlerVars == << hPc, hMsg >>

serverVars == << nRead >>

rchanVars == << readChan, readChanClosed, received >>

wchanVars == << writeChan, writeChanClosed, enq >>

dlVars == << readDeadline, writeDeadline >>

labVars == << taken, whohas, mutex, evPc, evArg, evSaw, labLog >>

\* the variables of the IRC client, of main and of the Web API
clientVars ==
    << mainPc, openErr, mainMsg, hsArmed, hsElapsed, readChan,
       readChanClosed, writeChan, writeChanClosed, readerPc, readerMsg,
       writerPc, writerMsg, writeErr, sockOut, sockPartial, sockClosed,
       nRead, hPc, hMsg, decoded, received, enq, wtaken, events >>

----------------------------------------------------------------------------
(* Channels *)

\* a channel that never makes a sender wait
CanSendAlways(q, cap) == TRUE

\* a send on a buffered channel of capacity cap proceeds when the buffer has
\* room
CanSend(q, cap) == Len(q) < cap

\* a channel that hands out the newest message first
ChanSendFront(q, m) == <<m>> \o q

\* ch <- m
ChanSend(q, m) == Append(q, m)

\* the value <-ch yields from a non-empty buffer
ChanFront(q) == Head(q)

\* the buffer after <-ch
ChanRest(q) == Tail(q)

\* the process is alive: main has neither returned nor panicked nor exited
Running == mainPc \notin {"exited", "crashed"}

\* http.ListenAndServe is accepting requests
Serving == mainPc \in {"loop", "handle", "dispatch", "close", "close_conn",
                       "wait"}

----------------------------------------------------------------------------
(* Initial state: NewIRCClient has dialled, built the client and started *)
(* the reader and the writer; init is about to run                       *)

\* the claim/release handler before any event: var whohas string, var taken
\* bool, an unlocked mutex and no messageEvent call
LabInit ==
    /\ taken = FALSE
    /\ whohas = <<>>
    /\ mutex = 0
    /\ evPc = [c \in Calls |-> "idle"]
    /\ evArg = [c \in Calls |-> NoEvent]
    /\ evSaw = [c \in Calls |-> NoSaw]
    /\ labLog = <<>>

Init ==
    /\ mainPc = "init_nick"
    /\ openErr = "none"
    /\ mainMsg = NoMsg
    /\ hsArmed = FALSE
    /\ hsElapsed = 0
    /\ readChan = <<>>
    /\ readChanClosed = FALSE
    /\ writeChan = <<>>
    /\ writeChanClosed = FALSE
    /\ readerPc = "read"
    /\ readerMsg = NoMsg
    /\ writerPc = "range"
    /\ writerMsg = NoMsg
    /\ writeErr = FALSE
    /\ sockOut = <<>>
    /\ sockPartial = <<>>
    /\ sockClosed = FALSE
    /\ nRead = 0
    /\ hPc = [h \in Handlers |-> "idle"]
    /\ hMsg = [h \in Handlers |-> NoMsg]
    /\ decoded = <<>>
    /\ received = <<>>
    /\ enq = <<>>
    /\ wtaken = <<>>
    /\ events = <<>>
    /\ readDeadline = "none"
    /\ writeDeadline = "none"
    /\ LabInit

----------------------------------------------------------------------------
(* IRCClient.init, called by NewIRCClient *)

\* c.Write(m) by main: c.writeChan <- m
MainWrite(m, next) ==
    /\ ~writeChanClosed
    /\ CanSend(writeChan, WriteChanCap)
    /\ writeChan' = ChanSend(writeChan, m)
    /\ enq' = Append(enq, m)
    /\ mainPc' = next
    /\ UNCHANGED writeChanClosed

MainInitNick ==
    /\ mainPc = "init_nick"
    /\ MainWrite(NickMsg, "init_user")
    /\ UNCHANGED << openErr, mainMsg, timerVars, rchanVars, readerVars,
                    writerVars, handlerVars, serverVars, sockClosed, events,
                    dlVars, labVars >>

\* an init that joins before it has sent USER
MainInitUserJoinFirst ==
    /\ mainPc = "init_user"
    /\ MainWrite(JoinMsg, "init_join")
    /\ UNCHANGED << openErr, mainMsg, timerVars, rchanVars, readerVars,
                    writerVars, handlerVars, serverVars, sockClosed, events,
                    dlVars, labVars >>

MainInitUser ==
    /\ mainPc = "init_user"
    /\ MainWrite(UserMsg, "init_join")
    /\ UNCHANGED << openErr, mainMsg, timerVars, rchanVars, readerVars,
                    writerVars, handlerVars, serverVars, sockClosed, events,
                    dlVars, labVars >>

MainInitJoin ==
    /\ mainPc = "init_join"
    /\ MainWrite(JoinMsg, "init_timer")
    /\ UNCHANGED << openErr, mainMsg, timerVars, rchanVars, readerVars,
                    writerVars, handlerVars, serverVars, sockClosed, events,
                    dlVars, labVars >>

\* timeoutChan := time.After(5 * time.Second)
MainInitTimer ==
    /\ mainPc = "init_timer"
    /\ hsArmed' = TRUE
    /\ hsElapsed' = 0
    /\ mainPc' = "init_select"
    /\ UNCHANGED << openErr, mainMsg, rchanVars, wchanVars, readerVars,
                    writerVars, handlerVars, serverVars, sockClosed, events,
                    dlVars, labVars >>

\* a handshake that looks for the numeric without its leading zeros
HandshakeStepNo001(m) ==
    IF m.Command = <<"1">> THEN "ready"
    ELSE IF m.Command = <<"NOTICE">> THEN "continue"
    ELSE "fail"

\* a handshake that skips every message that is not the numeric
HandshakeStepLenient(m) ==
    IF m.Command = <<"001">> THEN "ready" ELSE "continue"

\* a handshake for which a NOTICE is an unexpected message
HandshakeStepNoticeFails(m) ==
    IF m.Command = <<"001">> THEN "ready" ELSE "fail"

\* what init does with a received message: "ready" returns nil, "continue"
\* goes round the loop, "fail" returns the unexpected-message error
HandshakeStep(m) ==
    IF m.Command = <<"001">> THEN "ready"
    ELSE IF m.Command = <<"NOTICE">> THEN "continue"
    ELSE "fail"

\* a timer that fires as soon as it is started
TimerFiredEarly == hsArmed

\* the timer of init has fired
TimerFired == hsArmed /\ hsElapsed >= HandshakeTimeout

\* select: case <-timeoutChan
MainInitTimeout ==
    /\ mainPc = "init_select"
    /\ TimerFired
    /\ openErr' = "timeout"
    /\ mainPc' = "init_failed"
    /\ hsArmed' = FALSE
    /\ UNCHANGED << mainMsg, hsElapsed, rchanVars, wchanVars, readerVars,
                    writerVars, handlerVars, serverVars, sockClosed, events,
                    dlVars, labVars >>

\* an init that starts its timer again at every message it skips
MainInitRecvRestarts ==
    /\ mainPc = "init_select"
    /\ readChan # <<>>
    /\ LET m == ChanFront(readChan)
           r == HandshakeStep(m)
       IN  /\ readChan' = ChanRest(readChan)
           /\ received' = Append(received, m)
           /\ mainPc' = CASE r = "ready" -> "opened"
                          [] r = "continue" -> "init_select"
                          [] OTHER -> "init_failed"
           /\ openErr' = IF r = "fail" THEN "unexpected" ELSE openErr
           /\ hsArmed' = (r = "continue")
           /\ hsElapsed' = IF r = "fail" THEN hsElapsed ELSE 0
    /\ UNCHANGED << mainMsg, readChanClosed, wchanVars, readerVars,
                    writerVars, handlerVars, serverVars, sockClosed, events,
                    dlVars, labVars >>

\* select: case m, ok := <-c.readChan with ok; when init returns nil its
\* timer is garbage
MainInitRecv ==
    /\ mainPc = "init_select"
    /\ readChan # <<>>
    /\ LET m == ChanFront(readChan)
           r == HandshakeStep(m)
       IN  /\ readChan' = ChanRest(readChan)
           /\ received' = Append(received, m)
           /\ mainPc' = CASE r = "ready" -> "opened"
                          [] r = "continue" -> "init_select"
                          [] OTHER -> "init_failed"
           /\ openErr' = IF r = "fail" THEN "unexpected" ELSE openErr
           /\ hsArmed' = (r = "continue")
           /\ hsElapsed' = IF r = "ready" THEN 0 ELSE hsElapsed
    /\ UNCHANGED << mainMsg, readChanClosed, wchanVars, readerVars,
                    writerVars, handlerVars, serverVars, sockClosed, events,
                    dlVars, labVars >>

\* select: case m, ok := <-c.readChan with !ok
MainInitClosed ==
    /\ mainPc = "init_select"
    /\ readChan = <<>>
    /\ readChanClosed
    /\ openErr' = "closed"
    /\ mainPc' = "init_failed"
    /\ hsArmed' = FALSE
    /\ UNCHANGED << mainMsg, hsElapsed, rchanVars, wchanVars, readerVars,
                    writerVars, handlerVars, serverVars, sockClosed, events,
                    dlVars, labVars >>

\* NewIRCClient on an error of init: _ = conn.Close(); return nil, err
MainOpenFail ==
    /\ mainPc = "init_failed"
    /\ sockClosed' = TRUE
    /\ mainPc' = "fatal"
    /\ UNCHANGED << openErr, mainMsg, timerVars, rchanVars, wchanVars,
                    readerVars, writerVars, handlerVars, serverVars, events,
                    dlVars, labVars >>

\* main: log.Fatalf("error connecting: %s", err) exits the process
MainFatal ==
    /\ mainPc = "fatal"
    /\ mainPc' = "exited"
    /\ UNCHANGED << openErr, mainMsg, timerVars, rchanVars, wchanVars,
                    readerVars, writerVars, handlerVars, serverVars,
                    sockClosed, events,
                    dlVars, labVars >>

\* a main that starts its loop on an emptied readChan
MainServeDrops ==
    /\ mainPc = "opened"
    /\ mainPc' = "loop"
    /\ readChan' = <<>>
    /\ UNCHANGED << openErr, mainMsg, timerVars, readChanClosed, received,
                    wchanVars, readerVars, writerVars, handlerVars,
                    serverVars, sockClosed, events, dlVars, labVars >>

\* main after NewIRCClient returned the client: app := NewApp(...);
\* go app.Serve(...)
MainServe ==
    /\ mainPc = "opened"
    /\ mainPc' = "loop"
    /\ UNCHANGED << openErr, mainMsg, timerVars, rchanVars, wchanVars,
                    readerVars, writerVars, handlerVars, serverVars,
                    sockClosed, events,
                    dlVars, labVars >>

\* one second passes while the timer of init runs
Tick ==
    /\ Running
    /\ hsArmed
    /\ hsElapsed < HandshakeTimeout
    /\ hsElapsed' = hsElapsed + 1
    /\ UNCHANGED << mainVars, hsArmed, rchanVars, wchanVars, readerVars,
                    writerVars, handlerVars, serverVars, sockClosed, events,
                    dlVars, labVars >>

----------------------------------------------------------------------------
(* The dispatcher loop of main *)

\* m, ok := <-client.readChan
MainRecv ==
    /\ mainPc = "loop"
    /\ readChan # <<>>
    /\ mainMsg' = ChanFront(readChan)
    /\ readChan' = ChanRest(readChan)
    /\ received' = Append(received, ChanFront(readChan))
    /\ mainPc' = "handle"
    /\ UNCHANGED << openErr, timerVars, readChanClosed, wchanVars, readerVars,
                    writerVars, handlerVars, serverVars, sockClosed, events,
                    dlVars, labVars >>

\* a loop that takes the closing of readChan for the end of the stream
\* while messages are still buffered
MainRecvClosedEarly ==
    /\ mainPc = "loop"
    /\ readChanClosed
    /\ mainPc' = "close"
    /\ UNCHANGED << openErr, mainMsg, timerVars, rchanVars, wchanVars,
                    readerVars, writerVars, handlerVars, serverVars,
                    sockClosed, events,
                    dlVars, labVars >>

\* !ok: break
MainRecvClosed ==
    /\ mainPc = "loop"
    /\ readChan = <<>>
    /\ readChanClosed
    /\ mainPc' = "close"
    /\ UNCHANGED << openErr, mainMsg, timerVars, rchanVars, wchanVars,
                    readerVars, writerVars, handlerVars, serverVars,
                    sockClosed, events,
                    dlVars, labVars >>

\* the message makes the loop body index out of range: m.Params[0] of a PING
\* or PRIVMSG without parameters, m.Params[0][0] of an empty first
\* parameter, m.Params[1] in dispatchEvent
IndexPanics(m) ==
    \/ m.Command = <<"PING">> /\ Len(m.Params) = 0
    \/ /\ m.Command = <<"PRIVMSG">>
       /\ \/ Len(m.Params) = 0
          \/ Len(m.Params[1]) = 0
          \/ m.Params[1][1] = "#" /\ Len(m.Params) < 2

\* the loop body discards the message
Discards(m) ==
    /\ ~IndexPanics(m)
    /\ m.Command # <<"PING">>
    /\ \/ m.Command # <<"PRIVMSG">>
       \/ m.Params[1][1] # "#"

\* a reply to a PING that carries the client's nick
PongMsgNick(m) == Msg(<<>>, <<"PONG">>, << nick >>)

\* the reply to a PING
PongMsg(m) == Msg(<<>>, <<"PONG">>, << m.Params[1] >>)

\* the Event of dispatchEvent
EventOf(m) == [Channel |-> m.Params[1], User |-> m.Prefix, Text |-> m.Params[2]]

\* if m.Command == "PING" { client.Write(PONG); continue }
MainPong ==
    /\ mainPc = "handle"
    /\ mainMsg.Command = <<"PING">>
    /\ ~IndexPanics(mainMsg)
    /\ MainWrite(PongMsg(mainMsg), "loop")
    /\ UNCHANGED << openErr, mainMsg, timerVars, rchanVars, readerVars,
                    writerVars, handlerVars, serverVars, sockClosed, events,
                    dlVars, labVars >>

\* a run-time panic in the main goroutine ends the process
MainPanic ==
    /\ mainPc = "handle"
    /\ IndexPanics(mainMsg)
    /\ mainPc' = "crashed"
    /\ UNCHANGED << openErr, mainMsg, timerVars, rchanVars, wchanVars,
                    readerVars, writerVars, handlerVars, serverVars,
                    sockClosed, events,
                    dlVars, labVars >>

\* a dispatcher that forwards what it should discard
MainDiscardForwards ==
    /\ mainPc = "handle"
    /\ Discards(mainMsg)
    /\ events' = Append(events, [event |-> [Channel |-> <<>>,
                                            User |-> mainMsg.Prefix,
                                            Text |-> <<>>],
                                 result |-> "pending"])
    /\ mainPc' = "loop"
    /\ UNCHANGED << openErr, mainMsg, timerVars, rchanVars, wchanVars,
                    readerVars, writerVars, handlerVars, serverVars,
                    sockClosed, dlVars, labVars >>

\* the two "continue" of the filters
MainDiscard ==
    /\ mainPc = "handle"
    /\ Discards(mainMsg)
    /\ mainPc' = "loop"
    /\ UNCHANGED << openErr, mainMsg, timerVars, rchanVars, wchanVars,
                    readerVars, writerVars, handlerVars, serverVars,
                    sockClosed, events,
                    dlVars, labVars >>

\* dispatchEvent(args.url, m) up to httpClient.Do
MainDispatch ==
    /\ mainPc = "handle"
    /\ mainMsg.Command = <<"PRIVMSG">>
    /\ ~IndexPanics(mainMsg)
    /\ mainMsg.Params[1][1] = "#"
    /\ events' = Append(events, [event |-> EventOf(mainMsg),
                                 result |-> "pending"])
    /\ mainPc' = "dispatch"
    /\ UNCHANGED << openErr, mainMsg, timerVars, rchanVars, wchanVars,
                    readerVars, writerVars, handlerVars, serverVars,
                    sockClosed, dlVars, labVars >>

\* what dispatchEvent returns: nil after a 200, an error after an I/O
\* failure or another status
DispatchResults == { "ok", "failed" }

\* a dispatcher that calls dispatchEvent again when it returned an error
MainDispatchRetry(res) ==
    /\ mainPc = "dispatch"
    /\ events' = [events EXCEPT ![Len(events)].result = res]
    /\ mainPc' = IF res = "failed" THEN "handle" ELSE "loop"
    /\ UNCHANGED << openErr, mainMsg, timerVars, rchanVars, wchanVars,
                    readerVars, writerVars, handlerVars, serverVars,
                    sockClosed, dlVars, labVars >>

\* dispatchEvent returns res: on an error log.Printf and continue, else the
\* end of the loop body
MainDispatchDone(res) ==
    /\ mainPc = "dispatch"
    /\ events' = [events EXCEPT ![Len(events)].result = res]
    /\ mainPc' = "loop"
    /\ UNCHANGED << openErr, mainMsg, timerVars, rchanVars, wchanVars,
                    readerVars, writerVars, handlerVars, serverVars,
                    sockClosed, dlVars, labVars >>

\* a Close that leaves writeChan open
MainCloseChanSkips ==
    /\ mainPc = "close"
    /\ ~writeChanClosed
    /\ mainPc' = "close_conn"
    /\ UNCHANGED << openErr, mainMsg, timerVars, rchanVars, wchanVars,
                    readerVars, writerVars, handlerVars, serverVars,
                    sockClosed, events,
                    dlVars, labVars >>

\* IRCClient.Close: close(c.writeChan)
MainCloseChan ==
    /\ mainPc = "close"
    /\ ~writeChanClosed
    /\ writeChanClosed' = TRUE
    /\ mainPc' = "close_conn"
    /\ UNCHANGED << openErr, mainMsg, timerVars, rchanVars, writeChan, enq,
                    readerVars, writerVars, handlerVars, serverVars,
                    sockClosed, events,
                    dlVars, labVars >>

\* IRCClient.Close: _ = c.conn.Close()
MainCloseConn ==
    /\ mainPc = "close_conn"
    /\ sockClosed' = TRUE
    /\ mainPc' = "wait"
    /\ UNCHANGED << openErr, mainMsg, timerVars, rchanVars, wchanVars,
                    readerVars, writerVars, handlerVars, serverVars, events,
                    dlVars, labVars >>

\* wg.Wait() returns and main returns
MainWait ==
    /\ mainPc = "wait"
    /\ readerPc = "done"
    /\ writerPc = "done"
    /\ mainPc' = "exited"
    /\ UNCHANGED << openErr, mainMsg, timerVars, rchanVars, wchanVars,
                    readerVars, writerVars, handlerVars, serverVars,
                    sockClosed, events,
                    dlVars, labVars >>

----------------------------------------------------------------------------
(* IRCClient.Close called by an owner other than the end of main *)

\* the owner of the client stops receiving and calls Close while the
\* stream is still open
MainCloseEarly ==
    /\ mainPc = "loop"
    /\ mainPc' = "close"
    /\ UNCHANGED << openErr, mainMsg, timerVars, rchanVars, wchanVars,
                    readerVars, writerVars, handlerVars, serverVars,
                    sockClosed, events,
                    dlVars, labVars >>

\* the owner calls Close once more after Close has returned
MainCloseAgain ==
    /\ mainPc = "wait"
    /\ mainPc' = "close"
    /\ UNCHANGED << openErr, mainMsg, timerVars, rchanVars, wchanVars,
                    readerVars, writerVars, handlerVars, serverVars,
                    sockClosed, events,
                    dlVars, labVars >>

\* IRCClient.Close: close(c.writeChan) of a channel that is already
\* closed: panic "close of closed channel" in the caller
MainCloseChanPanic ==
    /\ mainPc = "close"
    /\ writeChanClosed
    /\ mainPc' = "crashed"
    /\ UNCHANGED << openErr, mainMsg, timerVars, rchanVars, wchanVars,
                    readerVars, writerVars, handlerVars, serverVars,
                    sockClosed, events,
                    dlVars, labVars >>

----------------------------------------------------------------------------
(* IRCClient.reader *)

\* a reader for which a truncated line is an error like any other
ReaderReadStrictUpTo(line, n) ==
    /\ Running
    /\ readerPc = "read"
    /\ ~sockClosed
    /\ nRead < n
    /\ ParseMessage(line).err # "error"
    /\ nRead' = nRead + 1
    /\ IF ParseMessage(line).err = "truncated"
         THEN /\ readChanClosed' = TRUE
              /\ readerPc' = "done"
              /\ UNCHANGED << readerMsg, decoded >>
         ELSE /\ readerMsg' = ParseMessage(line).m
              /\ decoded' = Append(decoded, ParseMessage(line).m)
              /\ readerPc' = "push"
              /\ UNCHANGED readChanClosed
    /\ UNCHANGED << mainVars, timerVars, readChan, received, wchanVars,
                    writerVars, handlerVars, sockClosed, events,
                    dlVars, labVars >>

\* readMessage reads the next line the server sent and returns its
\* message: the line parses, possibly truncated; the server sends at most
\* n lines
ReaderReadUpTo(line, n) ==
    /\ Running
    /\ readerPc = "read"
    /\ ~sockClosed
    /\ nRead < n
    /\ LET p == ParseMessage(line)
       IN  /\ p.err # "error"
           /\ readerMsg' = p.m
           /\ decoded' = Append(decoded, p.m)
    /\ nRead' = nRead + 1
    /\ readerPc' = "push"
    /\ UNCHANGED << mainVars, timerVars, rchanVars, wchanVars, writerVars,
                    handlerVars, sockClosed, events,
                    dlVars, labVars >>

ReaderRead(line) == ReaderReadUpTo(line, MaxLines)

\* a reader that skips a line it cannot parse and reads on
ReaderParseErrorSkipsUpTo(line, n) ==
    /\ Running
    /\ readerPc = "read"
    /\ ~sockClosed
    /\ nRead < n
    /\ ParseMessage(line).err = "error"
    /\ nRead' = nRead + 1
    /\ UNCHANGED << mainVars, timerVars, rchanVars, wchanVars, readerVars,
                    writerVars, handlerVars, sockClosed, events,
                    dlVars, labVars >>

\* readMessage reads the next line the server sent and returns the parse
\* error: close(c.readChan); return; the server sends at most n lines
ReaderParseErrorUpTo(line, n) ==
    /\ Running
    /\ readerPc = "read"
    /\ ~sockClosed
    /\ nRead < n
    /\ ParseMessage(line).err = "error"
    /\ nRead' = nRead + 1
    /\ readChanClosed' = TRUE
    /\ readerPc' = "done"
    /\ UNCHANGED << mainVars, timerVars, readChan, received, wchanVars,
                    readerMsg, decoded, writerVars, handlerVars, sockClosed,
                    events,
                    dlVars, labVars >>

ReaderParseError(line) == ReaderParseErrorUpTo(line, MaxLines)

\* a reader that closes readChan on the closed connection and reads on
ReaderReadClosedReadsOn ==
    /\ Running
    /\ readerPc = "read"
    /\ sockClosed
    /\ ~readChanClosed
    /\ readChanClosed' = TRUE
    /\ readerPc' = "push"
    /\ UNCHANGED << mainVars, timerVars, readChan, received, wchanVars,
                    readerMsg, decoded, writerVars, handlerVars, serverVars,
                    sockClosed, events, dlVars, labVars >>

\* SetReadDeadline or ReadString fails on the closed connection:
\* close(c.readChan); return
ReaderReadClosed ==
    /\ Running
    /\ readerPc = "read"
    /\ sockClosed
    /\ readChanClosed' = TRUE
    /\ readerPc' = "done"
    /\ UNCHANGED << mainVars, timerVars, readChan, received, wchanVars,
                    readerMsg, decoded, writerVars, handlerVars, serverVars,
                    sockClosed, events,
                    dlVars, labVars >>

\* ReadString fails on the open connection (the peer disconnected, the read
\* deadline passed): close(c.readChan); return
ReaderReadFail ==
    /\ Running
    /\ readerPc = "read"
    /\ ~sockClosed
    /\ readChanClosed' = TRUE
    /\ readerPc' = "done"
    /\ UNCHANGED << mainVars, timerVars, readChan, received, wchanVars,
                    readerMsg, decoded, writerVars, handlerVars, serverVars,
                    sockClosed, events,
                    dlVars, labVars >>

\* a push that overwrites the oldest message of a full readChan
ReaderPushOverwrite ==
    /\ Running
    /\ readerPc = "push"
    /\ readChan' = IF CanSend(readChan, ReadChanCap)
                     THEN ChanSend(readChan, readerMsg)
                     ELSE ChanSend(ChanRest(readChan), readerMsg)
    /\ readerPc' = "read"
    /\ readerMsg' = NoMsg
    /\ UNCHANGED << mainVars, timerVars, readChanClosed, received, wchanVars,
                    decoded, writerVars, handlerVars, serverVars, sockClosed,
                    events,
                    dlVars, labVars >>

\* c.readChan <- m
ReaderPush ==
    /\ Running
    /\ readerPc = "push"
    /\ CanSend(readChan, ReadChanCap)
    /\ readChan' = ChanSend(readChan, readerMsg)
    /\ readerPc' = "read"
    /\ readerMsg' = NoMsg
    /\ UNCHANGED << mainVars, timerVars, readChanClosed, received, wchanVars,
                    decoded, writerVars, handlerVars, serverVars, sockClosed,
                    events,
                    dlVars, labVars >>

----------------------------------------------------------------------------
(* IRCClient.writer *)

\* for m := range c.writeChan: the next message
WriterRecv ==
    /\ Running
    /\ writerPc = "range"
    /\ writeChan # <<>>
    /\ writerMsg' = ChanFront(writeChan)
    /\ writeChan' = ChanRest(writeChan)
    /\ wtaken' = Append(wtaken, ChanFront(writeChan))
    /\ writerPc' = "write"
    /\ UNCHANGED << mainVars, timerVars, rchanVars, writeChanClosed, enq,
                    readerVars, writeErr, sockOut, sockPartial, handlerVars,
                    serverVars, sockClosed, events,
                    dlVars, labVars >>

\* for m := range c.writeChan: the channel is closed and empty, the first
\* loop ends
WriterRangeEnd ==
    /\ Running
    /\ writerPc = "range"
    /\ writeChan = <<>>
    /\ writeChanClosed
    /\ writerPc' = "drain"
    /\ UNCHANGED << mainVars, timerVars, rchanVars, wchanVars, readerVars,
                    writerMsg, writeErr, wtaken, sockOut, sockPartial,
                    handlerVars, serverVars, sockClosed, events,
                    dlVars, labVars >>

\* writeMessage(m) returns nil: the encoded line, truncated or not, is
\* written and flushed
WriterWriteOk ==
    /\ Running
    /\ writerPc = "write"
    /\ ~sockClosed
    /\ Encode(writerMsg).err # "error"
    /\ sockOut' = Append(sockOut, Encode(writerMsg).buf)
    /\ writerPc' = "range"
    /\ writerMsg' = NoMsg
    /\ UNCHANGED << mainVars, timerVars, rchanVars, wchanVars, readerVars,
                    writeErr, wtaken, sockPartial, handlerVars, serverVars,
                    sockClosed, events,
                    dlVars, labVars >>

\* a writer that closes the connection when its write fails
WriterEncodeErrorClosesConn ==
    /\ Running
    /\ writerPc = "write"
    /\ Encode(writerMsg).err = "error"
    /\ writeErr' = TRUE
    /\ sockClosed' = TRUE
    /\ writerPc' = "drain"
    /\ writerMsg' = NoMsg
    /\ UNCHANGED << mainVars, timerVars, rchanVars, wchanVars, readerVars,
                    wtaken, sockOut, sockPartial, handlerVars, serverVars,
                    events, dlVars, labVars >>

\* writeMessage(m) returns the encoding error: break
WriterEncodeError ==
    /\ Running
    /\ writerPc = "write"
    /\ Encode(writerMsg).err = "error"
    /\ writeErr' = TRUE
    /\ writerPc' = "drain"
    /\ writerMsg' = NoMsg
    /\ UNCHANGED << mainVars, timerVars, rchanVars, wchanVars, readerVars,
                    wtaken, sockOut, sockPartial, handlerVars, serverVars,
                    sockClosed, events,
                    dlVars, labVars >>

\* a writer that takes a short write for a write and goes on to the next
\* message
WriterWriteFailGoesOn ==
    /\ Running
    /\ writerPc = "write"
    /\ Encode(writerMsg).err # "error"
    /\ LET k == IF sockClosed THEN 0 ELSE Len(Encode(writerMsg).buf) - 1
       IN  sockPartial' = SubSeq(Encode(writerMsg).buf, 1, k)
    /\ writerPc' = "range"
    /\ writerMsg' = NoMsg
    /\ UNCHANGED << mainVars, timerVars, rchanVars, wchanVars, readerVars,
                    writeErr, wtaken, sockOut, handlerVars, serverVars,
                    sockClosed, events,
                    dlVars, labVars >>

\* a writer that writes the line again after a short write
WriterWriteFailRewrites ==
    /\ Running
    /\ writerPc = "write"
    /\ Encode(writerMsg).err # "error"
    /\ LET k == IF sockClosed THEN 0 ELSE Len(Encode(writerMsg).buf) - 1
       IN  sockPartial' = SubSeq(Encode(writerMsg).buf, 1, k)
    /\ sockOut' = Append(sockOut, Encode(writerMsg).buf)
    /\ writeErr' = TRUE
    /\ writerPc' = "range"
    /\ writerMsg' = NoMsg
    /\ UNCHANGED << mainVars, timerVars, rchanVars, wchanVars, readerVars,
                    wtaken, handlerVars, serverVars, sockClosed, events,
                    dlVars, labVars >>

\* writeMessage(m) returns an error of SetWriteDeadline, WriteString or
\* Flush: fewer than len(buf) bytes reached the socket (all but the last
\* here), none when the connection is closed: break
WriterWriteFail ==
    /\ Running
    /\ writerPc = "write"
    /\ Encode(writerMsg).err # "error"
    /\ LET k == IF sockClosed THEN 0 ELSE Len(Encode(writerMsg).buf) - 1
       IN  sockPartial' = SubSeq(Encode(writerMsg).buf, 1, k)
    /\ writeErr' = TRUE
    /\ writerPc' = "drain"
    /\ writerMsg' = NoMsg
    /\ UNCHANGED << mainVars, timerVars, rchanVars, wchanVars, readerVars,
                    wtaken, sockOut, handlerVars, serverVars, sockClosed,
                    events,
                    dlVars, labVars >>

\* a writer that goes on writing after its first error
WriterDiscardWrites ==
    /\ Running
    /\ writerPc = "drain"
    /\ writeChan # <<>>
    /\ writeChan' = ChanRest(writeChan)
    /\ wtaken' = Append(wtaken, ChanFront(writeChan))
    /\ sockOut' = Append(sockOut, Encode(ChanFront(writeChan)).buf)
    /\ UNCHANGED << mainVars, timerVars, rchanVars, writeChanClosed, enq,
                    readerVars, writerPc, writerMsg, writeErr,
                    sockPartial, handlerVars, serverVars, sockClosed, events,
                    dlVars, labVars >>

\* for range c.writeChan { }: a message is taken and dropped
WriterDiscard ==
    /\ Running
    /\ writerPc = "drain"
    /\ writeChan # <<>>
    /\ writeChan' = ChanRest(writeChan)
    /\ wtaken' = Append(wtaken, ChanFront(writeChan))
    /\ UNCHANGED << mainVars, timerVars, rchanVars, writeChanClosed, enq,
                    readerVars, writerPc, writerMsg, writeErr, sockOut,
                    sockPartial, handlerVars, serverVars, sockClosed, events,
                    dlVars, labVars >>

\* for range c.writeChan { }: the channel is closed and empty, writer returns
WriterDrainEnd ==
    /\ Running
    /\ writerPc = "drain"
    /\ writeChan = <<>>
    /\ writeChanClosed
    /\ writerPc' = "done"
    /\ UNCHANGED << mainVars, timerVars, rchanVars, wchanVars, readerVars,
                    writerMsg, writeErr, wtaken, sockOut, sockPartial,
                    handlerVars, serverVars, sockClosed, events,
                    dlVars, labVars >>

----------------------------------------------------------------------------
(* readMessage and writeMessage step by step: the deadline is set, then the
   socket operation blocks until it returns *)

\* a reader that calls ReadString under the deadline of the read before
DlReaderKeepsDeadline ==
    /\ Running
    /\ readerPc = "read"
    /\ ~sockClosed
    /\ readerPc' = "reading"
    /\ UNCHANGED << rchanVars, readerMsg, decoded, nRead, readDeadline >>
    /\ UNCHANGED << mainVars, timerVars, wchanVars, writerVars, handlerVars,
                    sockClosed, events, writeDeadline, labVars >>

\* c.conn.SetReadDeadline(time.Now().Add(readTimeout)) returns nil
DlReaderSetDeadline ==
    /\ Running
    /\ readerPc = "read"
    /\ ~sockClosed
    /\ readDeadline' = "set"
    /\ readerPc' = "reading"
    /\ UNCHANGED << rchanVars, readerMsg, decoded, nRead >>
    /\ UNCHANGED << mainVars, timerVars, wchanVars, writerVars, handlerVars,
                    sockClosed, events, writeDeadline, labVars >>

\* c.conn.SetReadDeadline returns an error (the connection is closed):
\* readMessage returns it, close(c.readChan); return
DlReaderSetDeadlineFail ==
    /\ Running
    /\ readerPc = "read"
    /\ sockClosed
    /\ readChanClosed' = TRUE
    /\ readerPc' = "done"
    /\ UNCHANGED << readChan, received, readerMsg, decoded, nRead,
                    readDeadline >>
    /\ UNCHANGED << mainVars, timerVars, wchanVars, writerVars, handlerVars,
                    sockClosed, events, writeDeadline, labVars >>

\* c.rw.ReadString returns a line before the deadline and it parses
DlReaderLine(line) ==
    /\ Running
    /\ readerPc = "reading"
    /\ readDeadline = "set"
    /\ ~sockClosed
    /\ nRead < MaxLines
    /\ LET p == ParseMessage(line)
       IN  /\ p.err # "error"
           /\ readerMsg' = p.m
           /\ decoded' = Append(decoded, p.m)
    /\ nRead' = nRead + 1
    /\ readDeadline' = "stale"
    /\ readerPc' = "push"
    /\ UNCHANGED rchanVars
    /\ UNCHANGED << mainVars, timerVars, wchanVars, writerVars, handlerVars,
                    sockClosed, events, writeDeadline, labVars >>

\* c.rw.ReadString returns a line before the deadline and it does not
\* parse: close(c.readChan); return
DlReaderBadLine(line) ==
    /\ Running
    /\ readerPc = "reading"
    /\ readDeadline = "set"
    /\ ~sockClosed
    /\ nRead < MaxLines
    /\ ParseMessage(line).err = "error"
    /\ nRead' = nRead + 1
    /\ readDeadline' = "stale"
    /\ readChanClosed' = TRUE
    /\ readerPc' = "done"
    /\ UNCHANGED << readChan, received, readerMsg, decoded >>
    /\ UNCHANGED << mainVars, timerVars, wchanVars, writerVars, handlerVars,
                    sockClosed, events, writeDeadline, labVars >>

\* the read deadline passes while ReadString blocks
DlReadDeadlinePasses ==
    /\ Running
    /\ readerPc = "reading"
    /\ readDeadline = "set"
    /\ readDeadline' = "passed"
    /\ UNCHANGED << rchanVars, readerVars, nRead >>
    /\ UNCHANGED << mainVars, timerVars, wchanVars, writerVars, handlerVars,
                    sockClosed, events, writeDeadline, labVars >>

\* c.rw.ReadString returns an error: the deadline has passed, the peer has
\* disconnected or the connection was closed: close(c.readChan); return
DlReaderReadError ==
    /\ Running
    /\ readerPc = "reading"
    /\ readDeadline \in {"set", "passed"}
    /\ readChanClosed' = TRUE
    /\ readerPc' = "done"
    /\ UNCHANGED << readChan, received, readerMsg, decoded, nRead,
                    readDeadline >>
    /\ UNCHANGED << mainVars, timerVars, wchanVars, writerVars, handlerVars,
                    sockClosed, events, writeDeadline, labVars >>

\* ReadString returns the timeout error once the deadline has passed, or
\* the error of the closed connection
DlReaderTimeout ==
    /\ readDeadline = "passed" \/ sockClosed
    /\ DlReaderReadError

\* c.conn.SetWriteDeadline(time.Now().Add(writeTimeout)) returns nil
DlWriterSetDeadline ==
    /\ Running
    /\ writerPc = "write"
    /\ ~sockClosed
    /\ writeDeadline' = "set"
    /\ writerPc' = "writing"
    /\ UNCHANGED << writerMsg, writeErr, wtaken, sockOut, sockPartial >>
    /\ UNCHANGED << mainVars, timerVars, rchanVars, wchanVars, readerVars,
                    handlerVars, serverVars, sockClosed, events,
                    readDeadline, labVars >>

\* c.conn.SetWriteDeadline returns an error (the connection is closed):
\* writeMessage returns it, break
DlWriterSetDeadlineFail ==
    /\ Running
    /\ writerPc = "write"
    /\ sockClosed
    /\ writeErr' = TRUE
    /\ writerPc' = "drain"
    /\ writerMsg' = NoMsg
    /\ UNCHANGED << wtaken, sockOut, sockPartial, writeDeadline >>
    /\ UNCHANGED << mainVars, timerVars, rchanVars, wchanVars, readerVars,
                    handlerVars, serverVars, sockClosed, events,
                    readDeadline, labVars >>

\* WriteString and Flush return before the deadline with the whole line
\* written
DlWriterWriteOk ==
    /\ Running
    /\ writerPc = "writing"
    /\ writeDeadline = "set"
    /\ ~sockClosed
    /\ sockOut' = Append(sockOut, Encode(writerMsg).buf)
    /\ writeDeadline' = "stale"
    /\ writerPc' = "range"
    /\ writerMsg' = NoMsg
    /\ UNCHANGED << writeErr, wtaken, sockPartial >>
    /\ UNCHANGED << mainVars, timerVars, rchanVars, wchanVars, readerVars,
                    handlerVars, serverVars, sockClosed, events,
                    readDeadline, labVars >>

\* the write deadline passes while WriteString or Flush blocks
DlWriteDeadlinePasses ==
    /\ Running
    /\ writerPc = "writing"
    /\ writeDeadline = "set"
    /\ writeDeadline' = "passed"
    /\ UNCHANGED << writerPc, writerMsg, writeErr, wtaken, sockOut,
                    sockPartial >>
    /\ UNCHANGED << mainVars, timerVars, rchanVars, wchanVars, readerVars,
                    handlerVars, serverVars, sockClosed, events,
                    readDeadline, labVars >>

\* WriteString or Flush returns an error: the deadline has passed, the peer
\* has disconnected or the connection was closed; all but the last symbol
\* reached an open socket, none a closed one: break
DlWriterWriteError ==
    /\ Running
    /\ writerPc = "writing"
    /\ writeDeadline \in {"set", "passed"}
    /\ LET k == IF sockClosed THEN 0 ELSE Len(Encode(writerMsg).buf) - 1
       IN  sockPartial' = SubSeq(Encode(writerMsg).buf, 1, k)
    /\ writeErr' = TRUE
    /\ writerPc' = "drain"
    /\ writerMsg' = NoMsg
    /\ UNCHANGED << wtaken, sockOut, writeDeadline >>
    /\ UNCHANGED << mainVars, timerVars, rchanVars, wchanVars, readerVars,
                    handlerVars, serverVars, sockClosed, events,
                    readDeadline, labVars >>

\* WriteString or Flush returns the timeout error once the deadline has
\* passed, or the error of the closed connection
DlWriterTimeout ==
    /\ writeDeadline = "passed" \/ sockClosed
    /\ DlWriterWriteError

----------------------------------------------------------------------------
(* WebAPI.postMessageHandler, one call per request *)

\* the message a request asks to send
PrivMsg(r) == Msg(<<>>, <<"PRIVMSG">>, << r.Channel, r.Text >>)

\* h is the call that serves the next request to arrive
NextRequest(h) ==
    /\ hPc[h] = "idle"
    /\ \A g \in Handlers : g < h => hPc[g] # "idle"

\* a request arrives with a wrong method or a body that is not JSON:
\* hw.WriteHeader(http.StatusBadRequest); return
HandlerReject(h, r) ==
    /\ Serving
    /\ NextRequest(h)
    /\ r.method # "POST" \/ ~r.json
    /\ hPc' = [hPc EXCEPT ![h] = "done400"]
    /\ UNCHANGED << mainVars, timerVars, rchanVars, wchanVars, readerVars,
                    writerVars, hMsg, serverVars, sockClosed, events,
                    dlVars, labVars >>

\* a handler that decodes the body of a request of any method
HandlerDecodeAnyMethod(h, r) ==
    /\ Serving
    /\ NextRequest(h)
    /\ r.json
    /\ hPc' = [hPc EXCEPT ![h] = "write"]
    /\ hMsg' = [hMsg EXCEPT ![h] = PrivMsg(r)]
    /\ UNCHANGED << mainVars, timerVars, rchanVars, wchanVars, readerVars,
                    writerVars, serverVars, sockClosed, events,
                    dlVars, labVars >>

\* a well-formed request arrives: the handler reaches w.ircClient.Write
HandlerDecode(h, r) ==
    /\ Serving
    /\ NextRequest(h)
    /\ r.method = "POST" /\ r.json
    /\ hPc' = [hPc EXCEPT ![h] = "write"]
    /\ hMsg' = [hMsg EXCEPT ![h] = PrivMsg(r)]
    /\ UNCHANGED << mainVars, timerVars, rchanVars, wchanVars, readerVars,
                    writerVars, serverVars, sockClosed, events,
                    dlVars, labVars >>

\* a handler that writes its line to the socket itself
HandlerWriteDirect(h) ==
    /\ Serving
    /\ hPc[h] = "write"
    /\ ~writeChanClosed
    /\ Encode(hMsg[h]).err # "error"
    /\ sockOut' = Append(sockOut, Encode(hMsg[h]).buf)
    /\ hPc' = [hPc EXCEPT ![h] = "respond"]
    /\ hMsg' = [hMsg EXCEPT ![h] = NoMsg]
    /\ UNCHANGED << mainVars, timerVars, rchanVars, wchanVars, readerVars,
                    writerPc, writerMsg, writeErr, wtaken, sockPartial,
                    serverVars, sockClosed, events, dlVars, labVars >>

\* w.ircClient.Write(m): c.writeChan <- m
HandlerWrite(h) ==
    /\ Serving
    /\ hPc[h] = "write"
    /\ ~writeChanClosed
    /\ CanSend(writeChan, WriteChanCap)
    /\ writeChan' = ChanSend(writeChan, hMsg[h])
    /\ enq' = Append(enq, hMsg[h])
    /\ hPc' = [hPc EXCEPT ![h] = "respond"]
    /\ hMsg' = [hMsg EXCEPT ![h] = NoMsg]
    /\ UNCHANGED << mainVars, timerVars, rchanVars, writeChanClosed,
                    readerVars, writerVars, serverVars, sockClosed,
                    events,
                    dlVars, labVars >>

\* c.writeChan <- m when c.writeChan is closed, whether the send starts
\* after the close or was blocked at it: panic "send on closed channel" in
\* the handler's goroutine
HandlerWriteClosed(h) ==
    /\ Serving
    /\ hPc[h] = "write"
    /\ writeChanClosed
    /\ hPc' = [hPc EXCEPT ![h] = "panic"]
    /\ hMsg' = [hMsg EXCEPT ![h] = NoMsg]
    /\ UNCHANGED << mainVars, timerVars, rchanVars, wchanVars, readerVars,
                    writerVars, serverVars, sockClosed, events,
                    dlVars, labVars >>

\* a handler that answers before it has called Write
HandlerRespondEarly(h) ==
    /\ Serving
    /\ hPc[h] = "write"
    /\ hPc' = [hPc EXCEPT ![h] = "done200"]
    /\ hMsg' = [hMsg EXCEPT ![h] = NoMsg]
    /\ UNCHANGED << mainVars, timerVars, rchanVars, wchanVars, readerVars,
                    writerVars, serverVars, sockClosed, events,
                    dlVars, labVars >>

\* hw.Write of the APIResponse{OK: true}
HandlerRespond(h) ==
    /\ Serving
    /\ hPc[h] = "respond"
    /\ hPc' = [hPc EXCEPT ![h] = "done200"]
    /\ UNCHANGED << mainVars, timerVars, rchanVars, wchanVars, readerVars,
                    writerVars, hMsg, serverVars, sockClosed, events,
                    dlVars, labVars >>


----------------------------------------------------------------------------
(* Specification *)

\* the steps of NewIRCClient
MainOpenStep ==
    \/ MainInitNick \/ MainInitUser \/ MainInitJoin \/ MainInitTimer
    \/ MainInitTimeout \/ MainInitRecv \/ MainInitClosed
    \/ MainOpenFail

MainStep ==
    \/ MainOpenStep
    \/ MainFatal \/ MainServe
    \/ MainRecv \/ MainRecvClosed \/ MainPong \/ MainPanic \/ MainDiscard
    \/ MainDispatch
    \/ \E res \in DispatchResults : MainDispatchDone(res)
    \/ MainCloseChan \/ MainCloseConn \/ MainWait

\* the steps of the reader that the program takes of its own accord
ReaderStep == ReaderReadClosed \/ ReaderPush

\* the steps of the writer while c.writeChan is open and every message in
\* it encodes, as it is until NewIRCClient returns
WriterOpenStep == WriterRecv \/ WriterWriteOk \/ WriterDiscard

\* the steps of the writer that the program takes of its own accord
WriterStep ==
    \/ WriterRecv \/ WriterRangeEnd \/ WriterWriteOk \/ WriterEncodeError
    \/ WriterDiscard \/ WriterDrainEnd

HandlerStep ==
    \E h \in Handlers :
        HandlerWrite(h) \/ HandlerWriteClosed(h) \/ HandlerRespond(h)

\* what the IRC server and the network do
SocketStep ==
    \/ \E line \in ServerLines : ReaderRead(line)
    \/ \E line \in ServerLines : ReaderParseError(line)
    \/ ReaderReadFail
    \/ WriterWriteFail

\* what the peers and the network do
EnvStep ==
    \/ SocketStep
    \/ \E h \in Handlers, r \in Requests : HandlerReject(h, r)
    \/ \E h \in Handlers, r \in Requests : HandlerDecode(h, r)

Next == MainStep \/ ReaderStep \/ WriterStep \/ HandlerStep \/ Tick \/ EnvStep

Spec == Init /\ [][Next]_vars

\* NewIRCClient alone, from the start of the goroutines to its return: what
\* its caller does with the result is left out
OpenNext ==
    MainOpenStep \/ ReaderStep \/ WriterOpenStep \/ Tick \/ SocketStep

OpenSpec == Init /\ [][OpenNext]_vars

\* NewIRCClient under the Go scheduler and the passing of time
OpenFairSpec ==
    /\ OpenSpec
    /\ WF_vars(MainOpenStep)
    /\ WF_vars(ReaderStep)
    /\ WF_vars(WriterOpenStep)
    /\ WF_vars(Tick)

\* what the IRC server and the network do when the server sends enough
\* lines to fill readChan after the handshake
CloseSocketStep ==
    \/ \E line \in ServerLines : ReaderReadUpTo(line, CloseMaxLines)
    \/ \E line \in ServerLines : ReaderParseErrorUpTo(line, CloseMaxLines)
    \/ ReaderReadFail
    \/ WriterWriteFail

\* what the IRC server and the network do to the dispatcher
DispatchSocketStep ==
    \/ \E line \in DispatchLines : ReaderReadUpTo(line, DispatchMaxLines)
    \/ \E line \in DispatchLines :
          ReaderParseErrorUpTo(line, DispatchMaxLines)
    \/ ReaderReadFail
    \/ WriterWriteFail

\* the steps of the writer when every message it is given encodes
DispatchWriterStep ==
    \/ WriterRecv \/ WriterRangeEnd \/ WriterWriteOk \/ WriterDiscard
    \/ WriterDrainEnd

\* main with the client and no request to the Web API
DispatchNext ==
    \/ MainStep \/ ReaderStep \/ DispatchWriterStep \/ Tick
    \/ DispatchSocketStep

DispatchSpec == Init /\ [][DispatchNext]_vars

\* the steps of main when the server only probes the link
SendMainStep ==
    \/ MainOpenStep
    \/ MainFatal \/ MainServe
    \/ MainRecv \/ MainRecvClosed \/ MainPong \/ MainDiscard
    \/ MainCloseChan \/ MainCloseConn \/ MainWait

\* what the peers and the network do when the server only probes the link
SendEnvStep ==
    \/ \E line \in SendLines : ReaderRead(line)
    \/ ReaderReadFail
    \/ WriterWriteFail
    \/ \E h \in Handlers, r \in Requests : HandlerReject(h, r)
    \/ \E h \in Handlers, r \in Requests : HandlerDecode(h, r)

\* the producers of writeChan (init, the PONG of the dispatcher, the
\* handlers) and the writer
SendNext ==
    \/ SendMainStep \/ ReaderStep \/ WriterStep \/ HandlerStep \/ Tick
    \/ SendEnvStep

SendSpec == Init /\ [][SendNext]_vars

\* the same under the Go scheduler and the passing of time; the peers and
\* the network owe nothing
SendFairSpec ==
    /\ SendSpec
    /\ WF_vars(SendMainStep)
    /\ WF_vars(ReaderStep)
    /\ WF_vars(WriterStep)
    /\ WF_vars(HandlerStep)
    /\ WF_vars(Tick)

\* the same under the Go scheduler when, besides, the write deadline makes
\* writeMessage return
ShutdownFairSpec ==
    /\ SendSpec
    /\ WF_vars(SendMainStep)
    /\ WF_vars(ReaderStep)
    /\ WF_vars(WriterStep \/ WriterWriteFail)
    /\ WF_vars(HandlerStep)
    /\ WF_vars(Tick)

\* the lines that parse and that the loop body of main handles, each kind
\* once: the welcome and the NOTICE of the handshake, the PING with a
\* payload and the PRIVMSG to a channel
DeliverLines ==
    { line \in ServerLines :
        LET p == ParseMessage(line)
        IN  /\ p.err # "error"
            /\ ~IndexPanics(p.m)
            /\ ~(p.m.Command = <<"PRIVMSG">> /\ Discards(p.m)) }

\* the steps of main when every message it receives can be handled
DeliverMainStep ==
    \/ SendMainStep
    \/ MainDispatch
    \/ \E res \in DispatchResults : MainDispatchDone(res)

\* what the IRC server and the network do when the server sends lines that
\* parse
DeliverSocketStep ==
    \/ \E line \in DeliverLines : ReaderReadUpTo(line, DeliverMaxLines)
    \/ ReaderReadFail
    \/ WriterWriteFail

\* the way of a message from the socket through readChan to main
DeliverNext ==
    \/ DeliverMainStep \/ ReaderStep \/ DispatchWriterStep \/ Tick
    \/ DeliverSocketStep

DeliverSpec == Init /\ [][DeliverNext]_vars

\* the same under the Go scheduler and the passing of time, with an event
\* endpoint that answers or times out
DeliverFairSpec ==
    /\ DeliverSpec
    /\ WF_vars(DeliverMainStep)
    /\ WF_vars(ReaderStep)
    /\ WF_vars(DispatchWriterStep)
    /\ WF_vars(Tick)

\* the client with an owner that calls Close again after Close returned
CloseTwiceNext == Next \/ MainCloseAgain \/ MainCloseChanPanic

CloseTwiceSpec == Init /\ [][CloseTwiceNext]_vars

\* the client with an owner that may call Close at any point of its loop
CloseNext ==
    \/ MainStep \/ ReaderStep \/ WriterStep \/ HandlerStep \/ Tick
    \/ CloseSocketStep
    \/ \E h \in Handlers, r \in Requests : HandlerReject(h, r)
    \/ \E h \in Handlers, r \in Requests : HandlerDecode(h, r)
    \/ MainCloseEarly

CloseSpec == Init /\ [][CloseNext]_vars

\* the same under the Go scheduler; the read and write deadlines make
\* readMessage and writeMessage return, the owner owes no call of Close
CloseFairSpec ==
    /\ CloseSpec
    /\ WF_vars(MainStep)
    /\ WF_vars(ReaderStep \/ ReaderReadFail)
    /\ WF_vars(WriterStep \/ WriterWriteFail)
    /\ WF_vars(HandlerStep)
    /\ WF_vars(Tick)

\* the Go scheduler runs every goroutine that can run and time passes; the
\* peers and the network owe nothing
FairSpec ==
    /\ Spec
    /\ WF_vars(MainStep)
    /\ WF_vars(ReaderStep)
    /\ WF_vars(WriterStep)
    /\ WF_vars(HandlerStep)
    /\ WF_vars(Tick)

\* what the IRC server and the network do to the reader
ReadSocketStep ==
    \/ \E line \in ReadLines : ReaderRead(line)
    \/ \E line \in ReadLines : ReaderParseError(line)
    \/ ReaderReadFail
    \/ WriterWriteFail

\* NewIRCClient alone with a server that also sends a line that is too long
ReadNext ==
    MainOpenStep \/ ReaderStep \/ WriterOpenStep \/ Tick \/ ReadSocketStep

ReadSpec == Init /\ [][ReadNext]_vars

----------------------------------------------------------------------------
(* The codec on its own: writeMessage encodes a message and writes its line,
   readMessage reads that line back and decodes it *)

\* the writer holds a message of CodecMsgs, about to call writeMessage
CodecInit ==
    /\ mainPc = "loop"
    /\ openErr = "none"
    /\ mainMsg = NoMsg
    /\ hsArmed = FALSE
    /\ hsElapsed = 0
    /\ readChan = <<>>
    /\ readChanClosed = FALSE
    /\ writeChan = <<>>
    /\ writeChanClosed = FALSE
    /\ readerPc = "read"
    /\ readerMsg = NoMsg
    /\ writerPc = "write"
    /\ writerMsg \in CodecMsgs
    /\ writeErr = FALSE
    /\ sockOut = <<>>
    /\ sockPartial = <<>>
    /\ sockClosed = FALSE
    /\ nRead = 0
    /\ hPc = [h \in Handlers |-> "idle"]
    /\ hMsg = [h \in Handlers |-> NoMsg]
    /\ decoded = <<>>
    /\ received = <<>>
    /\ enq = << writerMsg >>
    /\ wtaken = << writerMsg >>
    /\ events = <<>>
    /\ readDeadline = "none"
    /\ writeDeadline = "none"
    /\ LabInit

\* readMessage reads the line that writeMessage wrote
CodecReadBack ==
    \E i \in DOMAIN sockOut :
        /\ i = nRead + 1
        /\ ReaderReadUpTo(sockOut[i], 1)

CodecNext == WriterWriteOk \/ WriterEncodeError \/ CodecReadBack

CodecSpec == CodecInit /\ [][CodecNext]_vars

----------------------------------------------------------------------------
(* NewIRCClient with readMessage and writeMessage step by step *)

\* the steps of the reader goroutine
DlReaderStep ==
    \/ DlReaderSetDeadline \/ DlReaderSetDeadlineFail \/ DlReaderTimeout
    \/ ReaderPush

\* the steps of the writer goroutine
DlWriterStep ==
    \/ WriterRecv \/ WriterDiscard
    \/ DlWriterSetDeadline \/ DlWriterSetDeadlineFail \/ DlWriterTimeout

\* the passing of the time of the deadlines
DlTimeStep == DlReadDeadlinePasses \/ DlWriteDeadlinePasses

\* what the IRC server and the network do
DlSocketStep ==
    \/ \E line \in ReadLines : DlReaderLine(line)
    \/ \E line \in ReadLines : DlReaderBadLine(line)
    \/ DlReaderReadError
    \/ DlWriterWriteOk
    \/ DlWriterWriteError

DeadlineNext ==
    \/ MainOpenStep \/ DlReaderStep \/ DlWriterStep \/ Tick \/ DlTimeStep
    \/ DlSocketStep

DeadlineSpec == Init /\ [][DeadlineNext]_vars

\* the same under the Go scheduler and the passing of time; the peer owes
\* nothing, not even to take what is written
DeadlineFairSpec ==
    /\ DeadlineSpec
    /\ WF_vars(MainOpenStep)
    /\ WF_vars(DlReaderStep)
    /\ WF_vars(DlWriterStep)
    /\ WF_vars(Tick)
    /\ WF_vars(DlTimeStep)

----------------------------------------------------------------------------
(* The claim/release handler of the event listener: eventMessage starts one
   goroutine per message event, and messageEvent runs status, take or
   release on the globals taken and whohas under the mutex *)

\* formatUser: the submatch of ^(.+?)!, the text before the first "!" that
\* has at least one character before it, or BADUSERSTRING
formatUser(user) ==
    IF \E i \in 2..Len(user) : user[i] = "!"
    THEN LET i == CHOOSE k \in 2..Len(user) :
                    /\ user[k] = "!"
                    /\ \A j \in 2..(k - 1) : user[j] # "!"
         IN  SubSeq(user, 1, i - 1)
    ELSE <<"BADUSERSTRING">>

\* what a critical section does with the claim state it saw: the values it
\* assigns when writes is true, and the reply it builds, as its kind and
\* the name put into it

\* status: "%s has the lab" or "no one has claimed the lab. !take to take"
status(user, saw) ==
    IF saw.taken
    THEN [writes |-> FALSE, taken |-> saw.taken, whohas |-> saw.whohas,
          reply |-> "has", name |-> formatUser(saw.whohas)]
    ELSE [writes |-> FALSE, taken |-> saw.taken, whohas |-> saw.whohas,
          reply |-> "no one", name |-> <<>>]

\* a take that gives the lab to whoever asks last
takeSteals(user, saw) ==
    [writes |-> TRUE, taken |-> TRUE, whohas |-> user,
     reply |-> "now has", name |-> formatUser(user)]

\* take: "%s already has the lab!", "Alas %s has already taken lab, go bug
\* them", or taken = true; whohas = user and "%s now has the lab, go forth
\* and prosper"
take(user, saw) ==
    IF saw.taken
    THEN IF user = saw.whohas
         THEN [writes |-> FALSE, taken |-> saw.taken, whohas |-> saw.whohas,
               reply |-> "already", name |-> formatUser(user)]
         ELSE [writes |-> FALSE, taken |-> saw.taken, whohas |-> saw.whohas,
               reply |-> "alas", name |-> formatUser(saw.whohas)]
    ELSE [writes |-> TRUE, taken |-> TRUE, whohas |-> user,
          reply |-> "now has", name |-> formatUser(user)]

\* a release that anyone may issue
releaseByAnyone(user, saw) ==
    IF saw.taken
    THEN [writes |-> TRUE, taken |-> FALSE, whohas |-> <<>>,
          reply |-> "released", name |-> <<>>]
    ELSE [writes |-> FALSE, taken |-> saw.taken, whohas |-> saw.whohas,
          reply |-> "nothing", name |-> <<>>]

\* a release that leaves the name of the holder behind
releaseKeepsName(user, saw) ==
    IF saw.taken
    THEN IF user = saw.whohas
         THEN [writes |-> TRUE, taken |-> FALSE, whohas |-> saw.whohas,
               reply |-> "released", name |-> <<>>]
         ELSE [writes |-> FALSE, taken |-> saw.taken, whohas |-> saw.whohas,
               reply |-> "cannot", name |-> formatUser(saw.whohas)]
    ELSE [writes |-> FALSE, taken |-> saw.taken, whohas |-> saw.whohas,
          reply |-> "nothing", name |-> <<>>]

\* release: taken = false; whohas = "" and "Release successful", "You cannot
\* release when %s has the lab", or "No one has taken the lab, alas, nothing
\* to release"
release(user, saw) ==
    IF saw.taken
    THEN IF user = saw.whohas
         THEN [writes |-> TRUE, taken |-> FALSE, whohas |-> <<>>,
               reply |-> "released", name |-> <<>>]
         ELSE [writes |-> FALSE, taken |-> saw.taken, whohas |-> saw.whohas,
               reply |-> "cannot", name |-> formatUser(saw.whohas)]
    ELSE [writes |-> FALSE, taken |-> saw.taken, whohas |-> saw.whohas,
          reply |-> "nothing", name |-> <<>>]

\* the texts of the switch of messageEvent
LabCommands == { "!status", "!take", "!release" }

\* switch text: the function messageEvent calls
messageEvent(user, text, saw) ==
    CASE text = "!status" -> status(user, saw)
      [] text = "!take" -> take(user, saw)
      [] text = "!release" -> release(user, saw)

\* eventMessage for an event without subtype: go func() { messageEvent(...,
\* event.User, event.Text) }(); the events are numbered as they arrive
LabEvent(c, user, text) ==
    /\ evPc[c] = "idle"
    /\ \A d \in Calls : d < c => evPc[d] # "idle"
    /\ evPc' = [evPc EXCEPT ![c] = "switch"]
    /\ evArg' = [evArg EXCEPT ![c] = [User |-> user, Text |-> text]]
    /\ UNCHANGED << taken, whohas, mutex, evSaw, labLog, clientVars, dlVars >>

\* switch text without a matching case: messageEvent returns
LabIgnore(c) ==
    /\ evPc[c] = "switch"
    /\ evArg[c].Text \notin LabCommands
    /\ evPc' = [evPc EXCEPT ![c] = "done"]
    /\ UNCHANGED << taken, whohas, mutex, evArg, evSaw, labLog, clientVars,
                    dlVars >>

\* a Lock that does not wait for the mutex
LabLockNoWait(c) ==
    /\ evPc[c] = "switch"
    /\ evArg[c].Text \in LabCommands
    /\ mutex' = c
    /\ evPc' = [evPc EXCEPT ![c] = "locked"]
    /\ UNCHANGED << taken, whohas, evArg, evSaw, labLog, clientVars, dlVars >>

\* mutex.Lock() in status, take or release: returns when the mutex is free
LabLock(c) ==
    /\ evPc[c] = "switch"
    /\ evArg[c].Text \in LabCommands
    /\ mutex = 0
    /\ mutex' = c
    /\ evPc' = [evPc EXCEPT ![c] = "locked"]
    /\ UNCHANGED << taken, whohas, evArg, evSaw, labLog, clientVars, dlVars >>

\* if taken { if user == whohas: the reads of the claim state
LabRead(c) ==
    /\ evPc[c] = "locked"
    /\ evSaw' = [evSaw EXCEPT ![c] = [taken |-> taken, whohas |-> whohas]]
    /\ evPc' = [evPc EXCEPT ![c] = "decide"]
    /\ UNCHANGED << taken, whohas, mutex, evArg, labLog, clientVars, dlVars >>

\* the branch taken on what was read: its assignments to taken and whohas
\* and reply = fmt.Sprintf(...)
LabDecide(c) ==
    /\ evPc[c] = "decide"
    /\ LET r == messageEvent(evArg[c].User, evArg[c].Text, evSaw[c])
       IN  /\ taken' = IF r.writes THEN r.taken ELSE taken
           /\ whohas' = IF r.writes THEN r.whohas ELSE whohas
           /\ labLog' = Append(labLog, [call |-> c,
                                        user |-> evArg[c].User,
                                        text |-> evArg[c].Text,
                                        reply |-> r.reply,
                                        name |-> r.name,
                                        sent |-> FALSE])
    /\ evPc' = [evPc EXCEPT ![c] = "unlock"]
    /\ UNCHANGED << mutex, evArg, evSaw, clientVars, dlVars >>

\* mutex.Unlock()
LabUnlock(c) ==
    /\ evPc[c] = "unlock"
    /\ mutex' = 0
    /\ evPc' = [evPc EXCEPT ![c] = "reply"]
    /\ UNCHANGED << taken, whohas, evArg, evSaw, labLog, clientVars, dlVars >>

\* sendReply(client, channel, reply): client.ChatPostMessage; an error is
\* logged
LabReply(c) ==
    /\ evPc[c] = "reply"
    /\ labLog' = [i \in 1..Len(labLog) |->
                     IF labLog[i].call = c
                     THEN [labLog[i] EXCEPT !.sent = TRUE]
                     ELSE labLog[i]]
    /\ evPc' = [evPc EXCEPT ![c] = "done"]
    /\ UNCHANGED << taken, whohas, mutex, evArg, evSaw, clientVars, dlVars >>

\* the steps of the goroutine of one message event
LabCallStep(c) ==
    \/ LabIgnore(c) \/ LabLock(c) \/ LabRead(c) \/ LabDecide(c)
    \/ LabUnlock(c) \/ LabReply(c)

\* the event listener and its claim/release handler
LabNext ==
    \/ \E c \in Calls, user \in LabUsers, text \in LabTexts :
          LabEvent(c, user, text)
    \/ \E c \in Calls : LabCallStep(c)

LabSpec == Init /\ [][LabNext]_vars

----------------------------------------------------------------------------
(* Properties *)

\* the messages whose writeMessage has returned nil, while no write failed
Written ==
    IF writerPc = "write" THEN SubSeq(wtaken, 1, Len(wtaken) - 1) ELSE wtaken

\* the message the reader holds between readMessage and the push
ReaderPending == IF readerPc = "push" THEN << readerMsg >> ELSE <<>>

\* C1: while no write has failed, the lines on the socket are the encodings
\* of the messages accepted by writeChan, in the order of acceptance, each
\* once: the writer has taken a prefix of the accepted messages, the rest
\* is still queued in order, and line i is the encoding of message i.
C1_WriteOrder ==
    ~writeErr =>
        /\ enq = wtaken \o writeChan
        /\ sockOut = [i \in 1..Len(Written) |-> Encode(Written[i]).buf]
        /\ sockPartial = <<>>

\* the registration messages, a PONG and a handler's PRIVMSG are all written
C1_Witness ==
    /\ ~writeErr
    /\ Len(sockOut) = 5
    /\ \E i \in 1..5 : wtaken[i].Command = <<"PONG">>
    /\ \E i \in 1..5 : wtaken[i].Command = <<"PRIVMSG">>

C3_BoundedNoDrop ==
    /\ Len(readChan) <= ReadChanCap
    /\ Len(writeChan) <= WriteChanCap
    /\ decoded = received \o readChan \o ReaderPending
    /\ enq = wtaken \o writeChan
    /\ Cardinality({h \in Handlers : hPc[h] \in {"respond", "done200"}})
         = Cardinality({i \in 1..Len(enq) : enq[i].Command = <<"PRIVMSG">>})

\* the reader waits at a full readChan while init waits at a full writeChan
C3_Witness ==
    /\ readerPc = "push"
    /\ Len(readChan) = ReadChanCap
    /\ mainPc = "init_join"
    /\ Len(writeChan) = WriteChanCap

\* the last element of a non-empty sequence
Last(q) == q[Len(q)]

\* this step of init receives a message from readChan
InitReceives == mainPc = "init_select" /\ Len(received') = Len(received) + 1

\* C4 as stated: when init receives the 001, NewIRCClient returns the client
\* without error, the socket and both channels are open and the reader and
\* the writer are both still running.
C4_OpenReadyLoopsRunning ==
    [][ InitReceives /\ Last(received').Command = <<"001">> =>
           /\ mainPc' = "opened"
           /\ openErr' = "none"
           /\ ~sockClosed'
           /\ ~writeChanClosed'
           /\ writerPc' # "done"
           /\ ~readChanClosed'
           /\ readerPc' # "done" ]_vars

\* C4 amended: when init receives the 001 (only NOTICEs came before it, or
\* init would have returned), NewIRCClient returns the client without
\* error, it has closed neither the socket nor writeChan and the writer has
\* not returned; the reader may already have stopped on an error of its own.
C4_OpenReady ==
    [][ InitReceives /\ Last(received').Command = <<"001">> =>
           /\ mainPc' = "opened"
           /\ openErr' = "none"
           /\ ~sockClosed'
           /\ ~writeChanClosed'
           /\ writerPc' # "done" ]_vars

\* NewIRCClient has returned the client after a NOTICE and the 001
C4_Witness ==
    /\ mainPc = "opened"
    /\ Len(received) = 2
    /\ received[1].Command = <<"NOTICE">>
    /\ received[2].Command = <<"001">>

\* C5: init returns the timeout error only when 5 seconds have passed since
\* the timer was started, and when the server sends nothing and the
\* connection stays up until NewIRCClient closes it, init does return the
\* timeout error and NewIRCClient returns.
C5_SilentServerTimeout ==
    /\ [](openErr = "timeout" => hsElapsed = HandshakeTimeout)
    /\ ( [](nRead = 0 /\ (readerPc = "done" => sockClosed))
           => <>(openErr = "timeout" /\ mainPc = "fatal") )

\* NewIRCClient has returned the timeout error to a silent server
C5_Witness ==
    /\ openErr = "timeout"
    /\ mainPc = "fatal"
    /\ nRead = 0
    /\ hsElapsed = HandshakeTimeout

\* C6: when init receives a message that is neither the 001 nor a NOTICE it
\* returns the unexpected-message error in that very step, and when
\* readChan is closed and empty init leaves its loop only with an error;
\* neither waits for the timer: both steps are possible before it fires.
C6_FailImmediately ==
    /\ [][ InitReceives /\ Last(received').Command \notin {<<"001">>, <<"NOTICE">>}
             => mainPc' = "init_failed" /\ openErr' = "unexpected" ]_vars
    /\ [][ mainPc = "init_select" /\ readChan = <<>> /\ readChanClosed
           /\ mainPc' # mainPc
             => mainPc' = "init_failed" /\ openErr' \in {"closed", "timeout"} ]_vars
    /\ [](mainPc = "init_select" /\ readChan # <<>> => ENABLED MainInitRecv)
    /\ [](mainPc = "init_select" /\ readChan = <<>> /\ readChanClosed
            => ENABLED MainInitClosed)

\* init has failed on an unexpected message before the timer fired
C6_Witness ==
    /\ mainPc = "init_failed"
    /\ openErr = "unexpected"
    /\ hsElapsed < HandshakeTimeout

\* the messages of the registration
RegMsgs == << NickMsg, UserMsg, JoinMsg >>

\* C7: the first three messages accepted by writeChan are NICK, USER and
\* JOIN in that order, init receives nothing from readChan before all three
\* are accepted, and the first three lines on the socket are their
\* encodings in that order; before the NICK line only bytes of a failed
\* write of that line can have reached the socket.
C7_RegistrationOrder ==
    /\ \A i \in 1..Len(enq) : i <= 3 => enq[i] = RegMsgs[i]
    /\ Len(enq) < 3 => received = <<>>
    /\ \A i \in 1..Len(sockOut) : i <= 3 => sockOut[i] = Encode(RegMsgs[i]).buf
    /\ sockOut = <<>> => IsPrefixOf(sockPartial, Encode(NickMsg).buf)

\* the three lines are written and init has consumed a message
C7_Witness ==
    /\ Len(sockOut) = 3
    /\ mainPc = "init_select"
    /\ Len(received) = 1

\* some step of the reader or of the writer can be taken
LoopsCanStep ==
    ENABLED ( \/ ReaderStep
              \/ WriterStep
              \/ ReaderReadFail
              \/ WriterWriteFail
              \/ \E line \in ServerLines : ReaderRead(line)
              \/ \E line \in ServerLines : ReaderParseError(line) )

\* C8: when NewIRCClient has returned an error the socket is closed and
\* neither loop is left blocked: in a state where neither the reader nor
\* the writer can take a step (only the exit of the process is left), both
\* have returned.
C8_FailedOpenTearsDown ==
    mainPc = "fatal" =>
        /\ sockClosed
        /\ ~LoopsCanStep => readerPc = "done" /\ writerPc = "done"

\* this step is a receive from readChan that yields ok = false
RecvNotOk ==
    \/ mainPc = "loop" /\ mainPc' = "close"
    \/ mainPc = "init_select" /\ openErr' = "closed"

\* C9: a receive yields ok = false only when the reader has returned and
\* every message it pushed has been received, and from then on readChan
\* stays closed and empty, the state in which a receive yields ok = false
\* at once.
C9_EndOfStream ==
    [][ /\ RecvNotOk => /\ readerPc = "done"
                        /\ decoded = received
                        /\ readChan = <<>> /\ readChanClosed
        /\ readChan = <<>> /\ readChanClosed
             => readChan' = <<>> /\ readChanClosed' ]_vars

\* the dispatcher has received two messages and then ok = false
C9_Witness ==
    /\ mainPc = "close"
    /\ Len(received) = 2
    /\ readChan = <<>>
    /\ readChanClosed

\* C10: no postMessageHandler ever sends on the closed writeChan, whatever
\* the interleaving of its Write with Close.
C10_CloseSafeWithSend == \A h \in Handlers : hPc[h] # "panic"

\* C11: the step a call of Close takes on a client that Close has already
\* closed changes nothing and does not panic.
C11_CloseIdempotent ==
    [][ mainPc = "close" /\ writeChanClosed /\ mainPc' # mainPc
          => mainPc' # "crashed" /\ UNCHANGED << rchanVars, wchanVars,
                                                 readerVars, writerVars,
                                                 sockClosed >> ]_vars

\* C12: once Close has returned, the reader and the writer both return,
\* whatever the two queues held when Close was called (unless the process
\* ends first).
C12_CloseUnblocks ==
    [](mainPc = "wait"
         => <>( \/ readerPc = "done" /\ writerPc = "done"
                \/ ~Running ))

\* C13: once writeMessage has returned an error nothing more reaches the
\* socket, and the writer keeps emptying writeChan: a handler waiting in
\* Write gets its message accepted unless writeChan is closed or the
\* process ends first, and the Write of a PONG by the dispatcher returns.
C13_DrainAfterError ==
    /\ [][writeErr => sockOut' = sockOut /\ sockPartial' = sockPartial]_vars
    /\ \A h \in Handlers :
          [](writeErr /\ hPc[h] = "write"
               => <>(hPc[h] = "respond" \/ writeChanClosed \/ ~Running))
    /\ [](writeErr /\ mainPc = "handle" /\ mainMsg.Command = <<"PING">>
             /\ ~IndexPanics(mainMsg)
           => <>(mainPc = "loop"))

\* the first write failed, and the writer has taken and dropped the rest of
\* the registration and a handler's message, whose Write returned
C13_Witness ==
    /\ writeErr
    /\ sockOut = <<>>
    /\ ~writeChanClosed
    /\ Len(wtaken) = 4
    /\ wtaken[4].Command = <<"PRIVMSG">>
    /\ hPc[1] = "done200"

\* the messages the dispatcher loop has received: those received after the
\* welcome that ended init
LoopReceived ==
    IF openErr = "none" /\ \E i \in 1..Len(received) :
                              received[i].Command = <<"001">>
    THEN LET k == CHOOSE i \in 1..Len(received) :
                    /\ received[i].Command = <<"001">>
                    /\ \A j \in 1..(i - 1) : received[j].Command # <<"001">>
         IN  SubSeq(received, k + 1, Len(received))
    ELSE <<>>

\* the messages the loop body has dealt with: all but the one in its hands
LoopHandled ==
    IF mainPc = "handle"
    THEN SubSeq(LoopReceived, 1, Len(LoopReceived) - 1)
    ELSE LoopReceived

\* m is a PING that has a payload
IsPing(m) == m.Command = <<"PING">> /\ Len(m.Params) > 0

\* m is a PONG
IsPong(m) == m.Command = <<"PONG">>

\* m is a PRIVMSG whose first parameter begins with '#'
IsChannelMsg(m) ==
    /\ m.Command = <<"PRIVMSG">>
    /\ Len(m.Params) > 0
    /\ Len(m.Params[1]) > 0
    /\ m.Params[1][1] = "#"

\* m is such a PRIVMSG and has a text
HasText(m) == IsChannelMsg(m) /\ Len(m.Params) > 1

\* this step is taken by the loop body of the dispatcher
LoopBodyStep == mainPc = "handle" /\ mainPc' # mainPc

\* C14: the step that handles a PING with payload p appends one PONG whose
\* only parameter is p to the accepted messages and calls no delivery, and
\* the PONGs accepted so far are, in order, the answers to the PINGs
\* handled so far, one each.
C14_PingPong ==
    /\ [][ LoopBodyStep /\ IsPing(mainMsg)
            => /\ enq' = Append(enq, [Prefix |-> <<>>,
                                      Command |-> <<"PONG">>,
                                      Params |-> << mainMsg.Params[1] >>])
               /\ events' = events ]_vars
    /\ [] LET pings == SelectSeq(LoopHandled, IsPing)
              pongs == SelectSeq(enq, IsPong)
          IN  /\ Len(pongs) = Len(pings)
              /\ \A i \in 1..Len(pings) :
                    pongs[i].Params = << pings[i].Params[1] >>

\* a PING :abc has been answered and nothing was delivered
C14_Witness ==
    /\ mainPc = "loop"
    /\ \E i \in 1..Len(enq) :
          enq[i].Command = <<"PONG">> /\ enq[i].Params = << <<"abc">> >>
    /\ events = <<>>

\* C15: the step that handles a PRIVMSG whose first parameter begins with
\* '#' makes one delivery call, with channel the first parameter, user the
\* prefix and text the second parameter.
C15_ChannelMsgDelivered ==
    [][ LoopBodyStep /\ IsChannelMsg(mainMsg)
          => /\ Len(events') = Len(events) + 1
             /\ events'[Len(events')].event.Channel = mainMsg.Params[1]
             /\ events'[Len(events')].event.User = mainMsg.Prefix
             /\ events'[Len(events')].event.Text = mainMsg.Params[2] ]_vars

\* C16: the step that handles a message that is neither a PING nor a
\* PRIVMSG, or a PRIVMSG whose destination does not begin with '#', makes
\* no delivery call and offers nothing to writeChan.
C16_OthersDiscarded ==
    [][ /\ LoopBodyStep
        /\ \/ mainMsg.Command \notin { <<"PING">>, <<"PRIVMSG">> }
           \/ mainMsg.Command = <<"PRIVMSG">> /\ ~IsChannelMsg(mainMsg)
        => events' = events /\ enq' = enq /\ writeChan' = writeChan ]_vars

\* a PRIVMSG to the nick and a numeric have been handled, with no delivery
\* and no reply
C16_Witness ==
    /\ mainPc = "loop"
    /\ Len(LoopHandled) = 2
    /\ \E i \in 1..2 : /\ LoopHandled[i].Command = <<"PRIVMSG">>
                        /\ LoopHandled[i].Params[1] = nick
    /\ \E i \in 1..2 : LoopHandled[i].Command = <<"001">>
    /\ events = <<>>
    /\ Len(enq) = 3

\* C17: no delivery call is made for a channel message that the client
\* itself originated.
C17_NoSelfReplyForwarded ==
    \A i \in 1..Len(events) : events[i].event.User # nick

\* C18: while a delivery call is in progress the dispatcher can receive
\* the next message waiting in readChan.
C18_DeliveryDoesNotBlock ==
    mainPc = "dispatch" /\ readChan # <<>> => ENABLED MainRecv

\* C19: the step at which a delivery call returns leaves the channels, the
\* reader, the writer and the socket as they are and takes the dispatcher
\* back to its receive, and no message is delivered twice: the calls made
\* so far are one for each channel message with a text handled so far.
C19_DeliveryFailureContained ==
    /\ [][ mainPc = "dispatch" /\ mainPc' # mainPc
            => /\ mainPc' = "loop"
               /\ Len(events') = Len(events)
               /\ UNCHANGED << rchanVars, wchanVars, readerVars, writerVars,
                               sockClosed >> ]_vars
    /\ [](Len(events) = Len(SelectSeq(LoopHandled, HasText)))

\* a delivery has failed and the dispatcher has received the next message,
\* with both loops running and nothing closed
C19_Witness ==
    /\ mainPc = "handle"
    /\ Len(events) = 1
    /\ events[1].result = "failed"
    /\ Len(LoopReceived) = 2
    /\ readerPc # "done" /\ writerPc \in {"range", "write"}
    /\ ~readChanClosed /\ ~writeChanClosed /\ ~sockClosed

\* C20: a handler reaches its Write only with the PRIVMSG whose parameters
\* are the channel and the text of a well-formed POST; its Write appends
\* that message, once, to writeChan; it writes {ok: true} only after that
\* step, whether or not the writer has taken the message; and the
\* handlers past their Write are as many as the PRIVMSGs accepted.
C20_PostSendsOnce ==
    /\ [][ \A h \in Handlers :
             /\ hPc[h] = "idle" /\ hPc'[h] = "write"
                  => \E r \in Requests :
                        /\ r.method = "POST" /\ r.json
                        /\ hMsg'[h] = [Prefix |-> <<>>,
                                       Command |-> <<"PRIVMSG">>,
                                       Params |-> << r.Channel, r.Text >>]
             /\ hPc[h] # "respond" /\ hPc'[h] = "respond"
                  => /\ hPc[h] = "write"
                     /\ enq' = Append(enq, hMsg[h])
                     /\ writeChan' = Append(writeChan, hMsg[h])
             /\ hPc[h] # "done200" /\ hPc'[h] = "done200"
                  => hPc[h] = "respond" /\ enq' = enq ]_vars
    /\ [](Cardinality({h \in Handlers : hPc[h] \in {"respond", "done200"}})
           = Len(SelectSeq(enq, LAMBDA m : m.Command = <<"PRIVMSG">>)))

\* a handler has answered {ok: true} while its message waits in writeChan
\* and no line of it has reached the socket
C20_Witness ==
    /\ hPc[1] = "done200"
    /\ writeChan # <<>>
    /\ writeChan[Len(writeChan)].Command = <<"PRIVMSG">>
    /\ writeChan[Len(writeChan)].Params[1] = <<"#", "general">>
    /\ ~writeErr
    /\ Len(sockOut) <= 3

\* a request the handler must refuse: not a POST, or a body that is not JSON
BadRequest(r) == r.method # "POST" \/ ~r.json

\* C21: a request whose method is not POST, or whose body is not valid
\* JSON, is answered with 400 and puts nothing on writeChan: the handler
\* can only reject it, it can never carry it to Write, and the step that
\* rejects it leaves writeChan, its closed flag and the messages accepted
\* so far as they were.
C21_BadRequestRejected ==
    \A h \in Handlers : \A r \in Requests :
        BadRequest(r) =>
            /\ ~ENABLED HandlerDecode(h, r)
            /\ Serving /\ NextRequest(h) =>
                   ENABLED ( /\ HandlerReject(h, r)
                             /\ hPc'[h] = "done400"
                             /\ UNCHANGED << wchanVars, hMsg >> )

\* a request has been answered with 400 while the registration messages
\* are all that was ever put on writeChan
C21_Witness ==
    /\ hPc[1] = "done400"
    /\ enq = RegMsgs
    /\ ~writeChanClosed


\* the channel messages with a text that the loop of main has received
LoopDeliverable == SelectSeq(LoopReceived, HasText)

\* C22: delivery is at most once in both directions. The complete lines on
\* the socket are, one for one and in order, the encodings of the first
\* messages the writer took from writeChan, so no taken message is written
\* twice; a line cut short by an error belongs to the taken message that
\* follows them and is never completed or written again; and the delivery
\* calls are, one for one and in order, calls for channel messages received,
\* so no received message has two.
C22_AtMostOnce ==
    /\ Len(sockOut) <= Len(wtaken)
    /\ \A i \in 1..Len(sockOut) : sockOut[i] = Encode(wtaken[i]).buf
    /\ sockPartial # <<>> =>
          /\ writeErr
          /\ Len(wtaken) > Len(sockOut)
          /\ IsPrefixOf(sockPartial, Encode(wtaken[Len(sockOut) + 1]).buf)
          /\ sockPartial # Encode(wtaken[Len(sockOut) + 1]).buf
    /\ Len(events) <= Len(LoopDeliverable)
    /\ \A i \in 1..Len(events) : events[i].event = EventOf(LoopDeliverable[i])

\* a delivery has failed and was not repeated, and a PONG cut short by a
\* write error was followed by no further line
C22_Witness ==
    /\ sockPartial # <<>>
    /\ Len(sockOut) = 3
    /\ Len(wtaken) = 4
    /\ Len(events) = 1
    /\ events[1].result = "failed"
    /\ mainPc = "loop"


\* C23: an outbound message that exceeds the maximum line length is never
\* lost silently: a step of the writer that puts the truncated line of
\* such a message on the socket also reports it, that is, writeMessage
\* returns an error to the writer.
C23_TruncationReported ==
    [][ /\ writerPc = "write"
        /\ Encode(writerMsg).err = "truncated"
        /\ Len(sockOut') > Len(sockOut)
        => writeErr' ]_vars


\* C24: for every message whose encoding fits the maximum line length
\* (Encode returns it whole, without error and without truncation), decoding
\* the encoded line gives the message back, without error: the line on the
\* socket parses to the message the writer was given, and the message the
\* reader decodes from that line equals it.
C24_RoundTrip ==
    \A i \in 1..Len(sockOut) :
        Encode(wtaken[i]).err = "nil" =>
            /\ sockOut[i] = Encode(wtaken[i]).buf
            /\ ParseMessage(sockOut[i]) = [m |-> wtaken[i], err |-> "nil"]
            /\ i <= Len(decoded) => decoded[i] = wtaken[i]

\* a message with a prefix and two parameters, the last with spaces, has
\* been encoded, written, read back and decoded
C24_Witness ==
    /\ Len(decoded) = 1
    /\ Len(sockOut) = 1
    /\ Encode(wtaken[1]).err = "nil"
    /\ wtaken[1].Prefix # <<>>
    /\ Len(wtaken[1].Params) = 2
    /\ HasSpace(wtaken[1].Params[2])


\* readMessage can be called: the reader is between two lines on an open
\* connection and the server has a line to send
ReaderCanRead ==
    Running /\ readerPc = "read" /\ ~sockClosed /\ nRead < MaxLines

\* C25: a read error or a decode error other than truncation ends the read
\* loop. A line that does not parse can only make the reader stop; the step
\* at which the reader consumes a line without decoding it, or stops for
\* any reason, closes readChan and pushes nothing; once stopped the reader
\* reads no further line and pushes nothing; and a receive waiting on the
\* empty readChan at that moment returns with ok = false.
C25_ReadErrorEndsLoop ==
    /\ [](\A line \in ServerLines :
             ParseMessage(line).err = "error" => ~ENABLED ReaderRead(line))
    /\ [][ /\ readerPc = "read"
           /\ \/ nRead' # nRead /\ decoded' = decoded
              \/ readerPc' = "done"
           => /\ readerPc' = "done"
              /\ readChanClosed'
              /\ readChan' = readChan
              /\ decoded' = decoded ]_vars
    /\ [][ readerPc = "done" =>
             /\ readerPc' = "done"
             /\ nRead' = nRead
             /\ decoded' = decoded
             /\ Len(readChan') <= Len(readChan) ]_vars
    /\ [](readerPc = "done" /\ readChan = <<>> =>
             /\ readChanClosed
             /\ mainPc = "loop" => ENABLED (MainRecvClosed /\ mainPc' = "close")
             /\ mainPc = "init_select" =>
                   ENABLED (MainInitClosed /\ openErr' = "closed"))

\* after the welcome the second line did not parse: the reader stopped
\* without pushing it and main's receive returned with ok = false
C25_Witness ==
    /\ readerPc = "done"
    /\ nRead = 2
    /\ Len(decoded) = 1
    /\ received = decoded
    /\ openErr = "none"
    /\ mainPc = "close"


OnlyNotices(q) == \A i \in 1..Len(q) : q[i].Command = <<"NOTICE">>

\* C27: a NOTICE received during the registration changes nothing: the step
\* of init that receives it takes it from readChan and stays in the select
\* with no error, the timer as it was and writeChan and the socket
\* untouched; and as long as init has received only NOTICEs, however many,
\* it has neither returned nil nor returned the unexpected-message error.
C27_NoticeIgnored ==
    /\ [][ InitReceives /\ Last(received').Command = <<"NOTICE">> =>
             /\ mainPc' = "init_select"
             /\ openErr' = openErr
             /\ hsArmed' = hsArmed
             /\ hsElapsed' = hsElapsed
             /\ readChan' = ChanRest(readChan)
             /\ UNCHANGED << readChanClosed, wchanVars, sockClosed >> ]_vars
    /\ [](OnlyNotices(received) =>
             /\ mainPc \notin {"opened", "loop"}
             /\ openErr # "unexpected")

\* init has received two NOTICEs and waits for the next message or the
\* timer
C27_Witness ==
    /\ Len(received) = 2
    /\ OnlyNotices(received)
    /\ mainPc = "init_select"
    /\ openErr = "none"
    /\ hsArmed

\* C28: the timer of init is started once, when NICK, USER and JOIN have
\* been accepted by writeChan and nothing has been received, and while it
\* runs its elapsed time never goes back, so a NOTICE does not restart or
\* extend it; and when the server sends only NOTICEs and the connection
\* stays up until NewIRCClient closes it, init returns the timeout error
\* and NewIRCClient returns.
C28_OneOverallDeadline ==
    /\ [][ ~hsArmed /\ hsArmed' =>
             enq = RegMsgs /\ received = <<>> /\ hsElapsed' = 0 ]_vars
    /\ [][ hsArmed /\ hsArmed' => hsElapsed' >= hsElapsed ]_vars
    /\ ( [](OnlyNotices(decoded) /\ (readerPc = "done" => sockClosed))
           => <>(openErr = "timeout" /\ mainPc = "fatal") )

\* NewIRCClient has returned the timeout error to a server that sent two
\* NOTICEs, both received by init
C28_Witness ==
    /\ openErr = "timeout"
    /\ mainPc = "fatal"
    /\ Len(received) = 2
    /\ OnlyNotices(received)
    /\ hsElapsed = HandshakeTimeout


\* C29: a line that decodes with the truncated indicator is no error for
\* the reader. The long line decodes so; whenever the reader can read, that
\* line cannot stop it: the read step takes the reader to the push with the
\* message of the cut line and leaves readChan open; the push of any
\* message the reader holds puts that message at the end of readChan and
\* takes the reader back to reading; and every message decoded, truncated
\* or not, is received in the order decoded, unless it is still held or
\* queued.
C29_TruncatedIsSoft ==
    /\ ReaderCanRead =>
          /\ ParseMessage(LongLine).err = "truncated"
          /\ ~ENABLED ReaderParseError(LongLine)
          /\ ENABLED ( /\ ReaderRead(LongLine)
                       /\ readerPc' = "push"
                       /\ readerMsg' # NoMsg
                       /\ Last(decoded') = readerMsg'
                       /\ ~readChanClosed' )
    /\ Running /\ readerPc = "push" /\ CanSend(readChan, ReadChanCap) =>
          ENABLED ( /\ ReaderPush
                    /\ readerPc' = "read"
                    /\ readChan' = Append(readChan, readerMsg)
                    /\ ~readChanClosed' )
    /\ decoded = received \o readChan \o ReaderPending

\* the reader decoded the long line, pushed its message, init received it,
\* and the reader went on to decode the welcome
C29_Witness ==
    /\ nRead = 2
    /\ Len(decoded) = 2
    /\ decoded[1] = ParseMessage(LongLine).m
    /\ ParseMessage(LongLine).err = "truncated"
    /\ received = << decoded[1] >>
    /\ decoded[2].Command = <<"001">>
    /\ ~readChanClosed


\* C30: a short write is an error of the writer. The step at which fewer
\* symbols than the encoded line reach the socket adds no line to those
\* written, makes writeMessage return an error and takes the writer out of
\* its writing loop into the discarding one; from then on the part written
\* stays as it is, never completed and never followed by a line, and the
\* writer never comes back to writing.
C30_ShortWriteIsError ==
    /\ [][ /\ writerPc = "write"
           /\ writerPc' # "write"
           /\ Encode(writerMsg).err # "error"
           /\ sockOut' = sockOut
           => /\ writeErr'
              /\ writerPc' = "drain"
              /\ IsPrefixOf(sockPartial', Encode(writerMsg).buf)
              /\ sockPartial' # Encode(writerMsg).buf ]_vars
    /\ [][ writeErr =>
             /\ sockPartial' = sockPartial
             /\ sockOut' = sockOut
             /\ writerPc' \in {"drain", "done"} ]_vars
    /\ [](writeErr => Len(sockOut) < Len(wtaken))

\* a PRIVMSG of a handler was cut short on the open socket: it is not among
\* the lines written and the writer is discarding
C30_Witness ==
    /\ ~sockClosed
    /\ writerPc = "drain"
    /\ writeErr
    /\ Len(sockOut) = 3
    /\ Len(wtaken) >= 4
    /\ wtaken[4].Command = <<"PRIVMSG">>
    /\ sockPartial # <<>>
    /\ IsPrefixOf(sockPartial, Encode(wtaken[4]).buf)


\* C31: every blocking socket operation is under a fresh deadline. While
\* ReadString blocks the read deadline was set for it, and no line is read
\* under another; while WriteString and Flush block the write deadline was
\* set for them, and nothing reaches the socket under another; a failure to
\* set a deadline ends the loop of its goroutine at once; and no ReadString
\* and no write blocks for ever while the process lives: the deadline
\* passes and the loop ends.
C31_FreshDeadlines ==
    /\ [](readerPc = "reading" => readDeadline \in {"set", "passed"})
    /\ [](writerPc = "writing" => writeDeadline \in {"set", "passed"})
    /\ [][ nRead' # nRead => readDeadline = "set" ]_vars
    /\ [][ sockOut' # sockOut \/ sockPartial' # sockPartial =>
             writeDeadline \in {"set", "passed"} ]_vars
    /\ [][ readerPc = "read" /\ readerPc' # "read" /\ readDeadline' # "set" =>
             readerPc' = "done" /\ readChanClosed' ]_vars
    /\ [][ writerPc = "write" /\ writerPc' # "write"
           /\ writeDeadline' # "set" =>
             writerPc' = "drain" /\ writeErr' ]_vars
    /\ [][ readDeadline = "passed" /\ readerPc' # readerPc =>
             readerPc' = "done" /\ readChanClosed' ]_vars
    /\ [][ writeDeadline = "passed" /\ writerPc = "writing"
           /\ writerPc' # writerPc =>
             writerPc' = "drain" /\ writeErr' ]_vars
    /\ [](readerPc = "reading" => <>(readerPc # "reading" \/ ~Running))
    /\ [](writerPc = "writing" => <>(writerPc # "writing" \/ ~Running))

\* the read deadline passed on a server that went silent after a NOTICE
\* and the reader has returned; the writer is discarding after its write
\* deadline passed
C31_Witness ==
    /\ readDeadline = "passed"
    /\ readerPc = "done"
    /\ nRead = 1
    /\ writeDeadline = "passed"
    /\ writerPc = "drain"
    /\ ~sockClosed


\* C32: only the reader reads from the socket and only the writer writes to
\* it. A step at which a line is taken from the socket is a step of the
\* reader in readMessage, and a step at which anything reaches the socket
\* is a step of the writer in writeMessage; at neither does init, the
\* dispatcher loop or a handler of the Web API move, whose Write and Read
\* only touch writeChan and readChan.
C32_SocketOwnership ==
    /\ [][ nRead' # nRead =>
             /\ readerPc = "read"
             /\ readerPc' \in {"push", "done"}
             /\ UNCHANGED << mainPc, hPc, writerPc >> ]_vars
    /\ [][ sockOut' # sockOut \/ sockPartial' # sockPartial =>
             /\ writerPc = "write"
             /\ writerPc' \in {"range", "drain"}
             /\ UNCHANGED << mainPc, hPc, readerPc >> ]_vars
    /\ [][ mainPc' # mainPc \/ hPc' # hPc =>
             UNCHANGED << nRead, decoded, sockOut, sockPartial >> ]_vars

\* the writer has written the registration and the PRIVMSG of a handler,
\* the reader has read two lines, and main and the handler have moved on
C32_Witness ==
    /\ Len(sockOut) = 4
    /\ nRead = 2
    /\ hPc[1] = "done200"
    /\ Len(received) = 2
    /\ mainPc = "loop"


\* C33: an error of the writer ends only the writing. The step at which
\* writeMessage fails leaves the reader, readChan, the connection and main
\* as they were; afterwards the reader can still read a line and push its
\* message, main can still receive what is queued, and readChan is closed
\* only by the reader at an error of its own.
C33_WriteErrorContained ==
    /\ [][ ~writeErr /\ writeErr' =>
             UNCHANGED << readerVars, rchanVars, nRead, sockClosed,
                          mainVars >> ]_vars
    /\ [][ writeErr /\ ~readChanClosed /\ readChanClosed' =>
             readerPc = "read" /\ readerPc' = "done" ]_vars
    /\ [](writeErr /\ ReaderCanRead =>
             ENABLED (ReaderRead(PingLine) /\ readerPc' = "push"))
    /\ [](writeErr /\ Running /\ readerPc = "push"
            /\ CanSend(readChan, ReadChanCap) =>
             ENABLED (ReaderPush /\ ~readChanClosed'))
    /\ [](writeErr /\ mainPc = "loop" /\ readChan # <<>> =>
             ENABLED (MainRecv /\ mainMsg' = ChanFront(readChan)))

\* the first write failed, and the reader went on to deliver the welcome
\* and a PING to main and is reading on an open readChan
C33_Witness ==
    /\ writeErr
    /\ sockOut = <<>>
    /\ writerPc = "drain"
    /\ Len(received) = 2
    /\ mainPc = "handle"
    /\ ~readChanClosed
    /\ ~sockClosed


\* C34: the dispatcher checks the number of parameters before it uses them:
\* whatever message main's loop is handling, a PING without a parameter, a
\* PRIVMSG with fewer than two or a PRIVMSG with an empty first one
\* included, the step of the loop body does not end in a panic.
C34_ParamsChecked ==
    [][ mainPc = "handle" => mainPc' # "crashed" ]_vars


\* C39: readChan is closed once and only by the reader, which has returned
\* from then on and pushes nothing more; writeChan is closed only by Close
\* in main, never by the writer. A step that closes readChan is a step of
\* the reader alone from its read to its return, on a readChan that was
\* open; once closed readChan stays closed and gets no further message; and
\* a step that closes writeChan is a step of main alone, in Close.
C39_QueueClosers ==
    /\ [][ readChanClosed' # readChanClosed =>
             /\ ~readChanClosed
             /\ readerPc = "read"
             /\ readerPc' = "done"
             /\ UNCHANGED << mainPc, writerPc, hPc >> ]_vars
    /\ [](readChanClosed => readerPc = "done")
    /\ [][ readChanClosed =>
             /\ readChanClosed'
             /\ readerPc' = "done"
             /\ Len(readChan') <= Len(readChan) ]_vars
    /\ [][ writeChanClosed' # writeChanClosed =>
             /\ ~writeChanClosed
             /\ mainPc = "close"
             /\ mainPc' = "close_conn"
             /\ UNCHANGED << writerPc, readerPc, hPc >> ]_vars
    /\ [][ writeChanClosed => writeChanClosed' ]_vars

\* both channels are closed, readChan by the reader at the end of the
\* stream and writeChan by Close, and both goroutines have returned
C39_Witness ==
    /\ readChanClosed
    /\ writeChanClosed
    /\ readerPc = "done"
    /\ writerPc = "done"
    /\ mainPc = "wait"
    /\ openErr = "none"


\* the messages the reader has pushed into readChan: those it decoded but
\* the one it still holds
Pushed ==
    IF readerPc = "push" THEN SubSeq(decoded, 1, Len(decoded) - 1)
    ELSE decoded

\* the welcome is among the first n messages of q
WelcomeWithin(q, n) ==
    \E i \in 1..n : i <= Len(q) /\ q[i].Command = <<"001">>

Decides(c, text) ==
    /\ evPc[c] = "decide"
    /\ evPc'[c] = "unlock"
    /\ evArg[c].Text = text

C36_ReleaseOnlyByHolder ==
    /\ [][ \A c \in Calls :
             Decides(c, "!release") =>
               IF taken /\ evArg[c].User = whohas
               THEN ~taken' /\ whohas' = <<>>
                    /\ Last(labLog').reply = "released"
               ELSE /\ UNCHANGED << taken, whohas >>
                    /\ Last(labLog').reply = IF taken THEN "cannot"
                                             ELSE "nothing" ]_vars
    /\ [][ (taken' # taken \/ whohas' # whohas) =>
             \E c \in Calls :
                \/ Decides(c, "!release") /\ taken /\ evArg[c].User = whohas
                \/ Decides(c, "!take") /\ ~taken ]_vars
    /\ [][ \A c \in Calls :
             (evPc'[c] # evPc[c] /\ evArg'[c].Text \notin { "!take", "!release" })
               => UNCHANGED << taken, whohas >> ]_vars

\* alice took the lab, srv could not release it, and then alice released
\* it
C36_Witness ==
    /\ Len(labLog) = 3
    /\ labLog[1].reply = "now has"
    /\ labLog[2].text = "!release" /\ labLog[2].reply = "cannot"
    /\ labLog[2].user = <<"srv">> /\ labLog[2].name = <<"alice">>
    /\ labLog[3].text = "!release" /\ labLog[3].reply = "released"
    /\ ~taken
    /\ whohas = <<>>

\* the claim state after the replies of log: the user of the last take that
\* succeeded, unless a release succeeded after it
RECURSIVE Holder(_)
Holder(log) ==
    IF log = <<>> THEN [taken |-> FALSE, whohas |-> <<>>]
    ELSE LET e == log[Len(log)]
         IN  CASE e.reply = "now has" -> [taken |-> TRUE, whohas |-> e.user]
               [] e.reply = "released" -> [taken |-> FALSE, whohas |-> <<>>]
               [] OTHER -> Holder(SubSeq(log, 1, Len(log) - 1))

C38_HolderIsLastTaker ==
    /\ ~taken => whohas = <<>> /\ ~Holder(labLog).taken
    /\ taken => Holder(labLog).taken /\ whohas = Holder(labLog).whohas

\* alice took the lab and released it, and srv has it now
C38_Witness ==
    /\ Len(labLog) = 3
    /\ labLog[1].reply = "now has" /\ labLog[1].user = <<"alice", "!", "u@h">>
    /\ labLog[2].reply = "released"
    /\ labLog[3].reply = "now has" /\ labLog[3].user = <<"srv">>
    /\ taken
    /\ whohas = <<"srv">>


============================================================================
